---- MODULE Spec2Model ----
(***************************************************************************)
(* A model of the spark-signals reactive engine (src/src): signals,        *)
(* deriveds, effects, the thread-local ReactiveContext, dependency         *)
(* tracking, mark_reactions, the flush loops, batch / untrack / tick,      *)
(* effect scopes and the selector.                                         *)
(*                                                                         *)
(* The engine is single threaded and every public operation runs to        *)
(* completion, so one TLA+ action is one public call made by user code at  *)
(* top level.  User closures (derived functions, effect bodies) are data:  *)
(* a closure is a sequence of instructions, interpreted by ExecSeq.  The   *)
(* engine functions are operators from a state record S to a state record, *)
(* named after the Rust functions they are translated from.  The engine    *)
(* functions and the closures call each other recursively; such a call is  *)
(* written Do(S, <<"name", arguments>>).                                   *)
(***************************************************************************)
EXTENDS Integers, Sequences, FiniteSets, TLC

VARIABLES
    prog,               \* node id -> the node's definition (kind, closure body, ...)
    value,              \* SourceInner.value / DerivedInner.value (NoVal = None)
    write_version,      \* per node write_version
    read_version,       \* per source read_version
    flags,              \* per node flags bitmask, as the set of the bits that are set
    deps,               \* per reaction: Vec<Rc<dyn AnySource>>
    reactions,          \* per source: Vec<Weak<dyn AnyReaction>>
    fx,                 \* per effect: func / teardown / parent / children / borrow state
    ctx,                \* the thread-local ReactiveContext
    scopes,             \* per scope: EffectScopeInner fields, and ACTIVE_SCOPE
    selectors,          \* per selector: current_value, initialized, subscribers
    hist,               \* observations: run counts, tracked reads, values seen
    panic,              \* "" or the panic message the last public call ended with
    last                \* the last public call and what it returned

vars == <<prog, value, write_version, read_version, flags, deps, reactions,
          fx, ctx, scopes, selectors, hist, panic, last>>

\* ------------------------------------------------------------------------
\* Bounds of the model and program constants
\* ------------------------------------------------------------------------

\* signal values written by top-level calls range over 0..MaxVal
MaxVal == 1
\* top-level calls per behaviour
MaxOps == 2

\* tracking.rs flush_pending_effects
MAX_ITERATIONS == 1000
\* scheduling.rs
MAX_FLUSH_COUNT == 1000

NoVal == -1
NoReaction == "none"
NoScope == "none"

\* core/constants.rs STATUS_MASK clears exactly these bits
StatusBits == {"CLEAN", "DIRTY", "MAYBE_DIRTY"}

MsgMaxDepth == "Maximum update depth exceeded"
MsgWriteInDerived == "Cannot write to signals inside a derived"
MsgBorrowMut == "already borrowed: BorrowMutError"
MsgNotInit == "derived not initialized"
MsgUser == "user panic"
MsgAbort == "panic while panicking: abort"

\* ------------------------------------------------------------------------
\* Helpers on sequences
\* ------------------------------------------------------------------------

Range(s) == {s[i] : i \in 1..Len(s)}

RECURSIVE SeqRemove(_, _)
\* Vec::retain(|x| x != r)
SeqRemove(s, r) ==
    IF s = <<>> THEN <<>>
    ELSE IF Head(s) = r THEN SeqRemove(Tail(s), r)
    ELSE <<Head(s)>> \o SeqRemove(Tail(s), r)


Contains(s, x) == \E i \in 1..Len(s) : s[i] = x

RECURSIVE SetToSeq(_)
\* a set of node ids as a sequence, in a fixed order
SetToSeq(A) ==
    IF A = {} THEN <<>>
    ELSE LET x == CHOOSE y \in A : TRUE IN <<x>> \o SetToSeq(A \ {x})

\* ------------------------------------------------------------------------
\* The state record threaded through the engine functions: the variables,
\* the panic that is unwinding (if any), the value acc the running closure
\* has computed so far, brk, set when the running flush loop has hit its
\* `break`, and sched, the effects_to_schedule of the running mark_reactions
\* ------------------------------------------------------------------------

Cur ==
    [prog |-> prog, value |-> value, write_version |-> write_version,
     read_version |-> read_version, flags |-> flags, deps |-> deps,
     reactions |-> reactions, fx |-> fx, ctx |-> ctx, scopes |-> scopes,
     selectors |-> selectors, hist |-> hist, panic |-> "", acc |-> 0, brk |-> FALSE, sched |-> <<>>]

Panic(S, msg) == [S EXCEPT !.panic = msg]

\* hist.log lists, in order, what the current top-level call has started:
\* closures run, reactions appended to the pending queue, effects destroyed
Log(S, ev) == [S EXCEPT !.hist.log = Append(@, ev)]

Kind(S, n) == S.prog[n].kind

\* a status change that sets the new bit and keeps the old one
set_signal_status_keep(S, n, status) == [S EXCEPT !.flags[n] = @ \cup {status}]

\* tracking.rs set_signal_status / set_source_status
set_signal_status(S, n, status) ==
    [S EXCEPT !.flags[n] = (@ \ StatusBits) \cup {status}]

\* core/types.rs default_equals, reactivity/equality.rs never_equals, always_equals
Equals(eq, a, b) ==
    CASE eq = "never" -> FALSE
      [] eq = "always" -> TRUE
      [] OTHER -> a = b

\* ------------------------------------------------------------------------
\* Do(S, <<"f", args>>) is the call f(args) made in state S
\* ------------------------------------------------------------------------

RECURSIVE Do(_, _)

\* ------------------------------------------------------------------------
\* reactivity/tracking.rs: track_read, remove_reactions, install_dependencies
\* ------------------------------------------------------------------------

\* a track_read that registers the dependency also while untracking is set
track_read_untracking_ignored(S, source) ==
    IF S.ctx.active_reaction = NoReaction THEN S
    ELSE LET reaction == S.ctx.active_reaction IN
         IF "REACTION_IS_UPDATING" \in S.flags[reaction]
         THEN IF S.read_version[source] < S.ctx.read_version
              THEN [S EXCEPT !.read_version[source] = S.ctx.read_version,
                             !.ctx.new_deps = Append(@, source)]
              ELSE S
         ELSE [S EXCEPT !.deps[reaction] = Append(@, source),
                        !.reactions[source] = Append(@, reaction)]

\* tracking.rs track_read
track_read(S, source) ==
    IF S.ctx.active_reaction = NoReaction \/ S.ctx.untracking THEN S
    ELSE LET reaction == S.ctx.active_reaction IN
         IF "REACTION_IS_UPDATING" \in S.flags[reaction]
         THEN IF S.read_version[source] < S.ctx.read_version
              THEN [S EXCEPT !.read_version[source] = S.ctx.read_version,
                             !.ctx.new_deps = Append(@, source)]
              ELSE S
         ELSE [S EXCEPT !.deps[reaction] = Append(@, source),
                        !.reactions[source] = Append(@, reaction)]

\* tracking.rs remove_reactions(reaction, start)
remove_reactions(S, reaction, start) ==
    LET ds == S.deps[reaction]
        to_remove == {ds[i] : i \in {j \in 1..Len(ds) : j > start}}
    IN [S EXCEPT !.reactions = [x \in DOMAIN @ |->
                        IF x \in to_remove THEN SeqRemove(@[x], reaction) ELSE @[x]],
                 !.deps[reaction] = SubSeq(ds, 1, IF start < Len(ds) THEN start ELSE Len(ds))]

RECURSIVE AddDeps(_, _, _)
\* for dep in new_deps { reaction.add_dep(dep); dep.add_reaction(weak(reaction)) }
AddDeps(S, reaction, new_deps) ==
    IF new_deps = <<>> THEN S
    ELSE AddDeps([S EXCEPT !.deps[reaction] = Append(@, Head(new_deps)),
                           !.reactions[Head(new_deps)] = Append(@, reaction)],
                 reaction, Tail(new_deps))

\* tracking.rs install_dependencies(reaction, skipped)
install_dependencies(S, reaction, skipped) ==
    LET new_deps == S.ctx.new_deps
        S1 == [S EXCEPT !.ctx.new_deps = <<>>]
    IN IF new_deps = <<>> /\ skipped = 0
       THEN [S1 EXCEPT !.deps[reaction] = <<>>]
       ELSE AddDeps(remove_reactions(S1, reaction, skipped), reaction, new_deps)

\* tracking.rs is_dirty
is_dirty(S, reaction) ==
    IF "DIRTY" \in S.flags[reaction] THEN TRUE
    ELSE IF "MAYBE_DIRTY" \notin S.flags[reaction] THEN FALSE
    ELSE TRUE

\* ------------------------------------------------------------------------
\* primitives/signal.rs and core/types.rs: Signal::get, Signal::set
\* ------------------------------------------------------------------------

\* tracking.rs notify_write
notify_write(S, source) ==
    IF S.ctx.active_reaction # NoReaction /\ "DERIVED" \in S.flags[S.ctx.active_reaction]
    THEN Panic(S, MsgWriteInDerived)
    ELSE Do(S, <<"mark_reactions", source, "DIRTY">>)

\* core/types.rs SourceInner::set: the value it returns
SourceInner_changed(S, s, v) == ~Equals(S.prog[s].eq, S.value[s], v)

\* a Signal::set that stores and notifies without asking equals
Signal_set_without_equals(S, s, v) ==
    LET S1 == [S EXCEPT !.value[s] = v, !.write_version[s] = @ + 1]
        wv == S1.ctx.write_version + 1
        S2 == [S1 EXCEPT !.ctx.write_version = wv, !.write_version[s] = wv]
    IN Do(S2, <<"notify_write", s>>)

\* a Signal::set that keeps the node's own count and takes no global version
Signal_set_local_version(S, s, v) ==
    IF ~SourceInner_changed(S, s, v) THEN S
    ELSE Do([S EXCEPT !.value[s] = v, !.write_version[s] = @ + 1], <<"notify_write", s>>)

\* primitives/signal.rs Signal::set (with SourceInner::set inlined)
Signal_set(S, s, v) ==
    IF ~SourceInner_changed(S, s, v) THEN S
    ELSE LET S1 == [S EXCEPT !.value[s] = v, !.write_version[s] = @ + 1]
             wv == S1.ctx.write_version + 1
             S2 == [S1 EXCEPT !.ctx.write_version = wv, !.write_version[s] = wv]
         IN Do(S2, <<"notify_write", s>>)

\* primitives/signal.rs Signal::get: the state after the read; the value is S.value[s]
Signal_get(S, s) == track_read(S, s)

\* ------------------------------------------------------------------------
\* reactivity/tracking.rs: mark_reactions, schedule_effect, flush_pending_effects
\* ------------------------------------------------------------------------

\* core/context.rs add_pending_reaction; hist.twice holds the reactions that
\* were appended while the queue already held them
add_pending_reaction(S, e) ==
    Log([S EXCEPT !.ctx.pending_reactions = Append(@, e),
                  !.hist.twice = @ \cup (IF Contains(S.ctx.pending_reactions, e)
                                         THEN {e} ELSE {})],
        <<"enq", e>>)

\* tracking.rs schedule_effect
schedule_effect(S, e) ==
    LET S1 == add_pending_reaction(S, e)
        should_flush == S1.ctx.batch_depth = 0 /\ ~S1.ctx.is_flushing_sync
    IN IF should_flush THEN Do(S1, <<"flush_pending_effects">>) ELSE S1

\* mark_reactions: for effect in effects_to_schedule { schedule_effect(effect) }
ScheduleAll(S, sched) ==
    IF S.panic # "" \/ sched = <<>> THEN S
    ELSE Do(Do(S, <<"schedule_effect", Head(sched)>>), <<"ScheduleAll", Tail(sched)>>)

\* mark_reactions: the body of `for reaction in reactions` for the first of
\* rs, then the rest of the loop, then the rest of the `while let` loop;
\* S.sched is effects_to_schedule
MarkEach(S, rs, current_status, stack) ==
    IF S.panic # "" THEN S
    ELSE IF rs = <<>> THEN Do(S, <<"MarkLoop", stack>>)
    ELSE LET reaction == Head(rs)
             fl == S.flags[reaction]
             not_dirty == "DIRTY" \notin fl
             S0 == IF not_dirty THEN set_signal_status(S, reaction, current_status) ELSE S
             S1 == IF not_dirty /\ "EFFECT" \in fl
                   THEN [S0 EXCEPT !.hist.marked = @ \cup {reaction}] ELSE S0
             is_derived == "DERIVED" \in fl
             is_repeater == ~is_derived /\ "REPEATER" \in fl
             S2 == IF is_repeater /\ not_dirty
                   THEN LET F == Do(S1, <<"forward", reaction>>)
                        IN IF F.panic # "" THEN F ELSE set_signal_status(F, reaction, "CLEAN")
                   ELSE S1
             stack2 == IF is_derived THEN Append(stack, <<reaction, "MAYBE_DIRTY">>) ELSE stack
             S3 == IF ~is_derived /\ ~is_repeater /\ not_dirty /\ "EFFECT" \in fl
                   THEN [S2 EXCEPT !.sched = Append(@, reaction)] ELSE S2
         IN Do(S3, <<"MarkEach", Tail(rs), current_status, stack2>>)

\* a marking loop that gives the reactions behind a derived the status DIRTY
MarkLoop_all_dirty(S, stack) ==
    IF S.panic # "" \/ stack = <<>> THEN S
    ELSE LET top == stack[Len(stack)]
             rest == SubSeq(stack, 1, Len(stack) - 1)
         IN Do(S, <<"MarkEach", S.reactions[top[1]], "DIRTY", rest>>)

\* mark_reactions: `while let Some((current_source, current_status)) = stack.pop()`
MarkLoop(S, stack) ==
    IF S.panic # "" \/ stack = <<>> THEN S
    ELSE LET top == stack[Len(stack)]
             rest == SubSeq(stack, 1, Len(stack) - 1)
         IN Do(S, <<"MarkEach", S.reactions[top[1]], top[2], rest>>)

\* hist.snap describes the latest mark_reactions call that returned: its
\* source, the reactions lists and the flags when it started, the flags when
\* its marking loop ended and the flags when it returned, and whether it was
\* called inside a batch or a running flush
NoSnap == [src |-> "none", rx |-> <<>>, pre |-> <<>>, mid |-> <<>>, ret |-> <<>>,
           deferred |-> FALSE]

\* tracking.rs mark_reactions: the marking loop, then the scheduling loop
mark_reactions(S, source, status) ==
    LET M == Do([S EXCEPT !.sched = <<>>], <<"MarkLoop", <<<<source, status>>>>>>)
        Z == Do([M EXCEPT !.sched = S.sched], <<"ScheduleAll", M.sched>>)
    IN IF Z.panic # "" THEN Z
       ELSE [Z EXCEPT !.hist.snap = [src |-> source, rx |-> S.reactions, pre |-> S.flags,
                                     mid |-> M.flags, ret |-> Z.flags,
                                     deferred |-> S.ctx.batch_depth > 0 \/
                                                  S.ctx.is_flushing_sync]]

\* the `for reaction_weak in pending` loop shared by the four flush functions;
\* skip is the set of flags whose presence makes the loop `continue`
RunPending(S, pending, skip) ==
    IF S.panic # "" \/ pending = <<>> THEN S
    ELSE LET reaction == Head(pending)
             fl == S.flags[reaction]
             S1 == IF fl \cap skip # {} \/ ~is_dirty(S, reaction) \/ "EFFECT" \notin fl
                   THEN S ELSE Do(S, <<"update_effect", reaction>>)
         IN Do(S1, <<"RunPending", Tail(pending), skip>>)

\* k iterations of a `loop` whose body is the call step, stopping at its
\* `break` or at a panic
Chunk(S, step, k) ==
    IF S.panic # "" \/ S.brk THEN S
    ELSE IF k = 1 THEN Do(S, step)
    ELSE Do(Do(S, <<"Chunk", step, k \div 2>>), <<"Chunk", step, k - (k \div 2)>>)

\* up to n iterations of the loop, run in chunks of k, 2k, 4k, ... iterations
Iterate(S, step, k, n) ==
    IF S.panic # "" \/ S.brk \/ n <= 0 THEN S
    ELSE Do(Do(S, <<"Chunk", step, IF k < n THEN k ELSE n>>), <<"Iterate", step, 2 * k, n - k>>)

\* the body of the `loop` of the flush functions after the iteration count
\* check: take the pending reactions, break if there are none, run them
FlushStep(S, skip) ==
    LET pending == S.ctx.pending_reactions
        S1 == [S EXCEPT !.ctx.pending_reactions = <<>>]
    IN IF pending = <<>> THEN [S1 EXCEPT !.brk = TRUE]
       ELSE Do(S1, <<"RunPending", pending, skip>>)

\* tracking.rs flush_pending_effects: iteration MAX_ITERATIONS + 1 panics
flush_pending_effects(S) ==
    LET was_flushing == S.ctx.is_flushing_sync
        S1 == Do([S EXCEPT !.ctx.is_flushing_sync = TRUE, !.brk = FALSE],
                 <<"Iterate", <<"FlushStep", {"INERT", "DESTROYED"}>>, 1, MAX_ITERATIONS>>)
    IN IF S1.panic # "" THEN S1
       ELSE IF S1.brk THEN [S1 EXCEPT !.brk = FALSE, !.ctx.is_flushing_sync = was_flushing]
       ELSE Panic([S1 EXCEPT !.ctx.is_flushing_sync = was_flushing], MsgMaxDepth)

\* ------------------------------------------------------------------------
\* primitives/derived.rs
\* ------------------------------------------------------------------------

IsStale(S, n) == S.flags[n] \cap {"DIRTY", "MAYBE_DIRTY"} # {}

RECURSIVE DepsToAdd(_, _, _)
\* update_derived_chain: the for_each_dep closure collecting deps_to_add;
\* the result is <<deps_to_add, visited>>
DepsToAdd(S, ds, found) ==
    IF ds = <<>> THEN found
    ELSE LET dep == Head(ds) IN
         IF "DERIVED" \in S.flags[dep] /\ IsStale(S, dep) /\ ~Contains(found[2], dep)
         THEN DepsToAdd(S, Tail(ds), <<Append(found[1], dep), Append(found[2], dep)>>)
         ELSE DepsToAdd(S, Tail(ds), found)

RECURSIVE CollectChain(_, _, _, _)
\* update_derived_chain: `while idx < chain.len()` (idx counts from 0)
CollectChain(S, chain, visited, idx) ==
    IF idx >= Len(chain) THEN chain
    ELSE LET current == chain[idx + 1] IN
         IF ~IsStale(S, current) THEN CollectChain(S, chain, visited, idx + 1)
         ELSE LET r == DepsToAdd(S, S.deps[current], <<<<>>, visited>>)
              IN CollectChain(S, chain \o r[1], r[2], idx + 1)

\* a check_deps_changed that never reports a newer dependency
check_deps_never_changed(S, d) == FALSE

\* derived.rs check_deps_changed
check_deps_changed(S, d) ==
    \E i \in 1..Len(S.deps[d]) : S.write_version[S.deps[d][i]] > S.write_version[d]

\* derived.rs DerivedInner::compute, with the closure fn_ run by ExecSeq;
\* hist.at[d] records the global write_version at the end of the run and
\* hist.failed the deriveds whose latest run ended in a panic
compute(S, d) ==
    LET S1 == Do(Log([S EXCEPT !.hist.reads[d] = {}, !.acc = 0], <<"cmp", d>>),
                 <<"ExecSeq", S.prog[d].body, d>>)
        new_value == S1.acc
        changed == IF S1.value[d] = NoVal THEN TRUE
                   ELSE ~Equals(S1.prog[d].eq, S1.value[d], new_value)
    IN IF S1.panic # "" THEN [S1 EXCEPT !.hist.failed = @ \cup {d}]
       ELSE LET S2 == [S1 EXCEPT !.hist.runs[d] = @ + 1, !.acc = S.acc,
                                 !.hist.failed = @ \ {d}] IN
            IF changed
            THEN [S2 EXCEPT !.value[d] = new_value,
                            !.ctx.write_version = @ + 1,
                            !.write_version[d] = S2.ctx.write_version + 1,
                            !.hist.at[d] = S2.ctx.write_version + 1]
            ELSE [S2 EXCEPT !.hist.at[d] = S2.ctx.write_version]

\* hist.frames holds one record per run of reaction r that returned while
\* another reaction was active: the active reaction, the active effect and
\* new_deps of the context A the run started in and of the context Z it
\* returned to
Frame(A, Z, r) ==
    IF A.ctx.active_reaction = NoReaction THEN Z
    ELSE [Z EXCEPT !.hist.frames = @ \cup
            {[r |-> r,
              ar0 |-> A.ctx.active_reaction, ae0 |-> A.ctx.active_effect,
              nd0 |-> A.ctx.new_deps,
              ar1 |-> Z.ctx.active_reaction, ae1 |-> Z.ctx.active_effect,
              nd1 |-> Z.ctx.new_deps]}]

\* an update_derived that marks the derived CLEAN also when its closure
\* panicked
update_derived_clean_on_panic(S, d) ==
    LET prev_reaction == S.ctx.active_reaction
        prev_new_deps == S.ctx.new_deps
        S1 == [S EXCEPT !.ctx.new_deps = <<>>,
                        !.ctx.active_reaction = d,
                        !.ctx.read_version = @ + 1,
                        !.flags[d] = @ \cup {"REACTION_IS_UPDATING"}]
        S2 == Do(S1, <<"compute", d>>)
        S3 == [S2 EXCEPT !.flags[d] = @ \ {"REACTION_IS_UPDATING"}]
        S4 == IF S2.panic # "" THEN S3 ELSE install_dependencies(S3, d, 0)
        S5 == set_signal_status(S4, d, "CLEAN")
    IN [S5 EXCEPT !.ctx.active_reaction = prev_reaction,
                  !.ctx.new_deps = prev_new_deps]

\* derived.rs update_derived
update_derived(S, d) ==
    LET prev_reaction == S.ctx.active_reaction
        prev_new_deps == S.ctx.new_deps
        S1 == [S EXCEPT !.ctx.new_deps = <<>>,
                        !.ctx.active_reaction = d,
                        !.ctx.read_version = @ + 1,
                        !.flags[d] = @ \cup {"REACTION_IS_UPDATING"}]
        S2 == Do(S1, <<"compute", d>>)
    IN IF S2.panic # "" THEN S2
       ELSE LET S3 == [S2 EXCEPT !.flags[d] = @ \ {"REACTION_IS_UPDATING"}]
                S4 == install_dependencies(S3, d, 0)
                S5 == set_signal_status(S4, d, "CLEAN")
            IN Frame(S, [S5 EXCEPT !.ctx.active_reaction = prev_reaction,
                                   !.ctx.new_deps = prev_new_deps], d)

\* update_derived_chain: `for i in (0..chain.len()).rev()`; i counts from 1
ProcessChain(S, chain, i) ==
    IF S.panic # "" \/ i < 1 THEN S
    ELSE LET current == chain[i]
             S1 == IF ~IsStale(S, current) THEN S
                   ELSE IF "DIRTY" \in S.flags[current] \/ check_deps_changed(S, current)
                   THEN Do(S, <<"update_derived", current>>)
                   ELSE set_signal_status(S, current, "CLEAN")
         IN Do(S1, <<"ProcessChain", chain, i - 1>>)

\* derived.rs update_derived_chain
update_derived_chain(S, target) ==
    IF ~IsStale(S, target) THEN S
    ELSE LET chain == CollectChain(S, <<target>>, <<target>>, 0)
         IN Do(S, <<"ProcessChain", chain, Len(chain)>>)

\* a get() that runs the closure whatever the status of the derived is
Derived_get_eager(S, d) ==
    LET S1 == Do(Log(S, <<"get", d>>), <<"compute", d>>) IN
    IF S1.panic # "" THEN S1
    ELSE LET S2 == track_read(set_signal_status(S1, d, "CLEAN"), d) IN
         IF S2.value[d] = NoVal THEN Panic(S2, MsgNotInit) ELSE Log(S2, <<"got", d>>)

\* derived.rs Derived::get: the state after the call; the value returned is
\* S.value[d] of that state (get_value panics on None)
Derived_get(S, d) ==
    LET S1 == Do(Log(S, <<"get", d>>), <<"update_derived_chain", d>>) IN
    IF S1.panic # "" THEN S1
    ELSE LET S2 == track_read(S1, d) IN
         IF S2.value[d] = NoVal THEN Panic(S2, MsgNotInit) ELSE Log(S2, <<"got", d>>)

\* ------------------------------------------------------------------------
\* primitives/effect.rs
\* ------------------------------------------------------------------------

\* an execute_teardown that calls the stored teardown and leaves it stored
execute_teardown_keep(S, e) ==
    IF ~S.fx[e].teardown THEN S
    ELSE LET S1 == Do([S EXCEPT !.hist.tds[e] = @ + 1, !.acc = 0],
                      <<"ExecSeq", S.prog[e].teardown, NoReaction>>)
         IN [S1 EXCEPT !.acc = S.acc]

\* effect.rs execute_teardown: take the stored teardown and call it
execute_teardown(S, e) ==
    IF ~S.fx[e].teardown THEN S
    ELSE LET S1 == Do(Log([S EXCEPT !.fx[e].teardown = FALSE, !.hist.tds[e] = @ + 1,
                                    !.acc = 0], <<"td", e>>),
                      <<"ExecSeq", S.prog[e].teardown, NoReaction>>)
         IN [S1 EXCEPT !.acc = S.acc]

\* effect.rs unlink_effect.  The child list first_child / next_sibling is the
\* sequence fx[parent].children.  `if let Some(ref first) =
\* *parent.first_child.borrow()` keeps the shared borrow alive over the
\* borrow_mut() in its body, and so does the last_child test.
unlink_effect(S, e) ==
    LET p == S.fx[e].parent
        cs == S.fx[p].children
    IN IF cs # <<>> /\ Head(cs) = e THEN Panic(S, MsgBorrowMut)
       ELSE IF cs # <<>> /\ cs[Len(cs)] = e
       THEN Panic([S EXCEPT !.fx[p].children = SeqRemove(cs, e)], MsgBorrowMut)
       ELSE [S EXCEPT !.fx[p].children = SeqRemove(cs, e)]

\* destroy_effect_children: `for child_rc in children`
DestroyEach(S, children) ==
    IF S.panic # "" \/ children = <<>> THEN S
    ELSE LET S1 == IF S.flags[Head(children)] \cap {"EFFECT_PRESERVED", "ROOT_EFFECT"} = {}
                   THEN Do(S, <<"destroy_effect", Head(children), FALSE>>) ELSE S
         IN Do(S1, <<"DestroyEach", Tail(children)>>)

\* a destroy_effect_children that detaches the children without destroying
\* them
destroy_effect_children_detach(S, e) == [S EXCEPT !.fx[e].children = <<>>]

\* effect.rs destroy_effect_children
destroy_effect_children(S, e) ==
    Do([S EXCEPT !.fx[e].children = <<>>], <<"DestroyEach", S.fx[e].children>>)

\* a destroy_effect that leaves the effect in the reactions lists of its
\* dependencies
destroy_effect_subscribed(S, e, remove_from_parent) ==
    LET S1 == Do(S, <<"destroy_effect_children", e>>) IN
    IF S1.panic # "" THEN S1 ELSE
    LET S2 == set_signal_status(S1, e, "DESTROYED")
        S3 == Do(S2, <<"execute_teardown", e>>)
    IN IF S3.panic # "" THEN S3 ELSE
    LET S4 == IF remove_from_parent /\ S3.fx[e].parent # NoReaction
              THEN unlink_effect(S3, e) ELSE S3
    IN IF S4.panic # "" THEN S4 ELSE
    LET S5 == [S4 EXCEPT !.fx[e].parent = NoReaction] IN
    IF S5.fx[e].borrowed THEN Panic(S5, MsgBorrowMut)
    ELSE [S5 EXCEPT !.fx[e].func = FALSE, !.fx[e].teardown = FALSE,
                    !.fx[e].children = <<>>, !.deps[e] = <<>>]

\* effect.rs destroy_effect
destroy_effect(S, e, remove_from_parent) ==
    LET S1 == Do(S, <<"destroy_effect_children", e>>) IN
    IF S1.panic # "" THEN S1 ELSE
    LET S2 == Log(set_signal_status(remove_reactions(S1, e, 0), e, "DESTROYED"),
                  <<"destroy", e>>)
        S3 == Do(S2, <<"execute_teardown", e>>)
    IN IF S3.panic # "" THEN S3 ELSE
    LET S4 == IF remove_from_parent /\ S3.fx[e].parent # NoReaction
              THEN unlink_effect(S3, e) ELSE S3
    IN IF S4.panic # "" THEN S4 ELSE
    LET S5 == [S4 EXCEPT !.fx[e].parent = NoReaction] IN
    IF S5.fx[e].borrowed THEN Panic(Log(S5, <<"clear", e>>), MsgBorrowMut)
    ELSE [S5 EXCEPT !.fx[e].func = FALSE, !.fx[e].teardown = FALSE,
                    !.fx[e].children = <<>>, !.deps[e] = <<>>]

\* effect.rs update_effect (AnyReaction::update for EffectInner calls it)
update_effect(S, e) ==
    IF "DESTROYED" \in S.flags[e] THEN S ELSE
    LET S1 == Do(set_signal_status(S, e, "CLEAN"), <<"destroy_effect_children", e>>) IN
    IF S1.panic # "" THEN S1 ELSE
    LET alive == {c \in Range(S.fx[e].children) :
                     /\ S.flags[c] \cap {"EFFECT_PRESERVED", "ROOT_EFFECT"} = {}
                     /\ "DESTROYED" \notin S1.flags[c]}
        S2 == Do([S1 EXCEPT !.hist.early = @ \cup (IF alive # {} THEN {e} ELSE {})],
                 <<"execute_teardown", e>>) IN
    IF S2.panic # "" THEN S2 ELSE
    LET prev_reaction == S2.ctx.active_reaction
        prev_effect == S2.ctx.active_effect
        S3 == [S2 EXCEPT !.ctx.active_reaction = e,
                         !.ctx.active_effect = e,
                         !.ctx.read_version = @ + 1,
                         !.ctx.skipped_deps = 0,
                         !.ctx.new_deps = <<>>,
                         !.flags[e] = @ \cup {"REACTION_IS_UPDATING"}]
    IN IF S3.fx[e].borrowed THEN Panic(Log(S3, <<"reenter", e>>), MsgBorrowMut) ELSE
    LET R == IF S3.fx[e].func
             THEN Do([S3 EXCEPT !.fx[e].borrowed = TRUE,
                                !.hist.log = Append(@, <<"run", e>>),
                                !.hist.runs[e] = @ + 1,
                                !.hist.batch_runs = @ + (IF S3.ctx.batch_depth > 0 THEN 1 ELSE 0),
                                !.hist.reads[e] = {},
                                !.hist.asked[e] = {},
                                !.hist.made[e] = <<>>,
                                !.hist.late = @ \cup (IF S3.hist.tds[e] # S3.hist.done[e]
                                                      THEN {e} ELSE {}),
                                !.acc = 0],
                     <<"ExecSeq", S3.prog[e].body, e>>)
             ELSE S3
        S4 == [R EXCEPT !.fx[e].borrowed = FALSE]
    IN IF S4.panic # "" THEN S4 ELSE
    LET skipped == S4.ctx.skipped_deps
        new_deps == S4.ctx.new_deps
        S5 == [S4 EXCEPT !.flags[e] = @ \ {"REACTION_IS_UPDATING"},
                         !.ctx.new_deps = <<>>,
                         !.ctx.active_reaction = prev_reaction,
                         !.ctx.active_effect = prev_effect,
                         !.hist.seen[e] = R.acc,
                         !.hist.log = Append(@, <<"ran", e>>),
                         !.acc = S.acc]
        S6 == AddDeps(remove_reactions(S5, e, skipped), e, new_deps)
        returned == S6.fx[e].func /\ S6.prog[e].teardown # <<>>
    IN Frame(S2, [S6 EXCEPT !.ctx.write_version = @ + 1,
                            !.write_version[e] = S6.ctx.write_version + 1,
                            !.fx[e].teardown = returned,
                            !.hist.done[e] = @ + (IF returned THEN 1 ELSE 0)], e)

\* scheduling.rs run_effect_flush
run_effect_flush(S) ==
    LET was_flushing == S.ctx.is_flushing_sync
        S1 == Do([S EXCEPT !.ctx.is_flushing_sync = TRUE, !.brk = FALSE],
                 <<"Iterate", <<"FlushStep", {"INERT"}>>, 1, MAX_FLUSH_COUNT>>)
    IN IF S1.panic # "" THEN S1
       ELSE IF S1.brk THEN [S1 EXCEPT !.brk = FALSE, !.ctx.is_flushing_sync = was_flushing]
       ELSE Panic([S1 EXCEPT !.ctx.is_flushing_sync = was_flushing], MsgMaxDepth)

\* scheduling.rs schedule_effect_inner
schedule_effect_inner(S, e) ==
    LET fl == S.flags[e]
        S1 == add_pending_reaction(S, e)
        should_run_now == S1.ctx.batch_depth = 0 /\ ~S1.ctx.is_flushing_sync
    IN IF should_run_now /\ ("RENDER_EFFECT" \in fl \/ "EFFECT" \in fl)
       THEN Do(S1, <<"run_effect_flush">>) ELSE S1

\* scheduling.rs flush_pending_reactions (called when the outermost batch exits)
flush_pending_reactions(S) ==
    Do(Log([S EXCEPT !.ctx.pending_reactions = <<>>], <<"exit", "batch">>),
       <<"RunPending", S.ctx.pending_reactions, {"INERT"}>>)

\* scheduling.rs flush_sync / flush_sync_inner(None); batching.rs tick calls
\* it.  queued_root_effects is always empty because nothing in the crate calls
\* scheduling::schedule_effect.  The panic leaves is_flushing_sync set.
flush_sync_inner(S) ==
    LET was_flushing == S.ctx.is_flushing_sync
        S1 == Do([S EXCEPT !.ctx.is_flushing_sync = TRUE, !.brk = FALSE],
                 <<"Iterate", <<"FlushStep", {"INERT"}>>, 1, MAX_FLUSH_COUNT>>)
    IN IF S1.panic # "" THEN S1
       ELSE IF S1.brk THEN [S1 EXCEPT !.brk = FALSE, !.ctx.is_flushing_sync = was_flushing]
       ELSE Panic(S1, MsgMaxDepth)

\* effect.rs create_effect, with EffectInner::new, register_effect_with_scope
\* and push_effect.  A node id names a creation site; weak references to an
\* earlier, destroyed instance of the site are dead and leave the queue, and
\* a scope that still holds the earlier instance holds a destroyed effect, on
\* which destroy_effect does nothing.  hist.inst counts the instances of the
\* site, hist.made[p] lists the children pushed during p's latest run, and
\* hist.handle holds the effects whose dispose function has not been called;
\* hist.scoped[sc] holds the effects created while sc was the active scope.
create_effect(S, e, effect_type, sync, push) ==
    LET parent == S.ctx.active_effect
        S1 == [S EXCEPT !.flags[e] = effect_type \cup {"DIRTY"},
                        !.deps[e] = <<>>,
                        !.write_version[e] = 0,
                        !.fx[e] = [func |-> TRUE, borrowed |-> FALSE, teardown |-> FALSE,
                                   parent |-> parent, children |-> <<>>],
                        !.ctx.pending_reactions = SeqRemove(@, e),
                        !.scopes.sc = [x \in DOMAIN @ |->
                                         [@[x] EXCEPT !.effects = SeqRemove(@, e)]],
                        !.hist.inst[e] = @ + 1,
                        !.hist.handle = @ \cup {e}]
        S2 == IF S1.scopes.active # NoScope
              THEN [S1 EXCEPT !.scopes.sc[S1.scopes.active].effects = Append(@, e),
                              !.hist.scoped[S1.scopes.active] = @ \cup {e}]
              ELSE S1
        S3 == IF parent # NoReaction /\ push
              THEN [S2 EXCEPT !.fx[parent].children = Append(@, e),
                              !.hist.made[parent] = Append(@, e)]
              ELSE S2
    IN IF sync
       THEN LET S4 == Do(S3, <<"update_effect", e>>) IN
            IF S4.panic # "" THEN S4
            ELSE [S4 EXCEPT !.flags[e] = @ \cup {"EFFECT_RAN"}]
       ELSE Do(S3, <<"schedule_effect_inner", e>>)

\* a repeater whose forward closure is not called during the marking
forward_skipped(S, r) == S

\* repeater.rs RepeaterInner::forward
forward(S, r) ==
    IF "DESTROYED" \in S.flags[r] THEN S
    ELSE LET S1 == Do(Log([S EXCEPT !.hist.runs[r] = @ + 1, !.acc = 0], <<"fwd", r>>),
                      <<"ExecSeq", S.prog[r].body, NoReaction>>)
         IN [S1 EXCEPT !.acc = S.acc]

\* repeater.rs repeat: the dispose function it returns, an FnOnce
repeat_dispose(S, r) ==
    IF r \notin S.hist.handle THEN S
    ELSE [S EXCEPT !.hist.handle = @ \ {r},
                   !.flags[r] = @ \cup {"DESTROYED"},
                   !.reactions[S.deps[r][1]] = SeqRemove(@, r)]

\* ------------------------------------------------------------------------
\* primitives/scope.rs
\* ------------------------------------------------------------------------

RECURSIVE SetInert(_, _)
\* pause: `for effect in self.effects` setting INERT
SetInert(S, es) ==
    IF es = <<>> THEN S
    ELSE SetInert([S EXCEPT !.flags[Head(es)] = @ \cup {"INERT"}], Tail(es))

RECURSIVE scope_pause(_, _)
RECURSIVE PauseEach(_, _)
\* pause: `for child in self.scopes { child.pause() }`
PauseEach(S, cs) ==
    IF cs = <<>> THEN S ELSE PauseEach(scope_pause(S, Head(cs)), Tail(cs))

\* scope.rs EffectScopeInner::pause
scope_pause(S, sc) ==
    IF ~S.scopes.sc[sc].active \/ S.scopes.sc[sc].paused THEN S
    ELSE PauseEach(SetInert([S EXCEPT !.scopes.sc[sc].paused = TRUE], S.scopes.sc[sc].effects),
                   S.scopes.sc[sc].scopes)

\* resume: `for effect in self.effects`: clear INERT, reschedule if DIRTY was set
ResumeEach(S, es) ==
    IF S.panic # "" \/ es = <<>> THEN S
    ELSE LET e == Head(es)
             fl == S.flags[e]
             S1 == [S EXCEPT !.flags[e] = fl \ {"INERT"}]
             S2 == IF "DIRTY" \in fl THEN Do(S1, <<"schedule_effect_inner", e>>) ELSE S1
         IN Do(S2, <<"ResumeEach", Tail(es)>>)

\* resume: `for child in self.scopes { child.resume() }`
ResumeScopes(S, cs) ==
    IF S.panic # "" \/ cs = <<>> THEN S
    ELSE Do(Do(S, <<"scope_resume", Head(cs)>>), <<"ResumeScopes", Tail(cs)>>)

\* scope.rs EffectScopeInner::resume
scope_resume(S, sc) ==
    IF ~S.scopes.sc[sc].active \/ ~S.scopes.sc[sc].paused THEN S
    ELSE LET S1 == Do([S EXCEPT !.scopes.sc[sc].paused = FALSE],
                      <<"ResumeEach", S.scopes.sc[sc].effects>>)
         IN Do(S1, <<"ResumeScopes", S1.scopes.sc[sc].scopes>>)

\* scope.rs effect_scope(detached) / EffectScopeInner::new: a scope id names
\* a creation site
effect_scope(S, sc, detached) ==
    LET parent == IF detached THEN NoScope ELSE S.scopes.active
        S1 == [S EXCEPT !.scopes.sc[sc] =
                   [active |-> TRUE, paused |-> FALSE, effects |-> <<>>, cleanups |-> <<>>,
                    parent |-> parent, scopes |-> <<>>]]
    IN IF parent # NoScope
       THEN [S1 EXCEPT !.scopes.sc[parent].scopes = Append(SeqRemove(@, sc), sc)]
       ELSE S1

\* scope.rs on_scope_dispose(f): cleanup is the record [k, body] of the
\* closure's name and statements
on_scope_dispose(S, cleanup) ==
    IF S.scopes.active # NoScope
    THEN [S EXCEPT !.scopes.sc[S.scopes.active].cleanups = Append(@, cleanup)]
    ELSE S

\* scope.rs EffectScopeInner::run; the active scope is not restored on a panic
scope_run(S, sc, body, me) ==
    IF ~S.scopes.sc[sc].active THEN S
    ELSE LET prev_scope == S.scopes.active
             S1 == Do([S EXCEPT !.scopes.active = sc], <<"ExecSeq", body, me>>)
         IN IF S1.panic # "" THEN S1 ELSE [S1 EXCEPT !.scopes.active = prev_scope]

\* stop: `for effect in effects { destroy_effect(effect, true) }`
StopEach(S, es) ==
    IF S.panic # "" \/ es = <<>> THEN S
    ELSE Do(Do(S, <<"destroy_effect", Head(es), TRUE>>), <<"StopEach", Tail(es)>>)

\* the cleanups called in registration order
RunCleanups_forward(S, cleanups, i) ==
    IF S.panic # "" \/ i < 1 THEN S
    ELSE LET c == cleanups[Len(cleanups) - i + 1]
             R == Do(Log([S EXCEPT !.acc = 0], <<"cl", c.k>>), <<"ExecSeq", c.body, NoReaction>>)
             S1 == [R EXCEPT !.acc = S.acc,
                             !.panic = IF R.panic = MsgAbort THEN MsgAbort ELSE ""]
         IN Do(S1, <<"RunCleanups", cleanups, i - 1>>)

\* stop: `for cleanup in cleanups.into_iter().rev()` with each call inside
\* catch_unwind; i is the position of the next cleanup to call
RunCleanups(S, cleanups, i) ==
    IF S.panic # "" \/ i < 1 THEN S
    ELSE LET R == Do(Log([S EXCEPT !.acc = 0], <<"cl", cleanups[i].k>>),
                     <<"ExecSeq", cleanups[i].body, NoReaction>>)
             S1 == [R EXCEPT !.acc = S.acc,
                             !.panic = IF R.panic = MsgAbort THEN MsgAbort ELSE ""]
         IN Do(S1, <<"RunCleanups", cleanups, i - 1>>)

\* stop: `for child in child_scopes { child.stop() }`
StopScopes(S, cs) ==
    IF S.panic # "" \/ cs = <<>> THEN S
    ELSE Do(Do(S, <<"scope_stop", Head(cs)>>), <<"StopScopes", Tail(cs)>>)

\* scope.rs EffectScopeInner::stop: flush_sync, drain and destroy the
\* effects, drain and run the cleanups, drain and stop the child scopes,
\* leave the parent's list, clear active
scope_stop(S, sc) ==
    IF ~S.scopes.sc[sc].active THEN S
    ELSE LET S1 == Do(S, <<"flush_sync_inner">>) IN
         IF S1.panic # "" THEN S1 ELSE
         LET S2 == Do([S1 EXCEPT !.scopes.sc[sc].effects = <<>>],
                      <<"StopEach", S1.scopes.sc[sc].effects>>)
         IN IF S2.panic # "" THEN S2 ELSE
         LET cleanups == S2.scopes.sc[sc].cleanups
             S3 == Do([S2 EXCEPT !.scopes.sc[sc].cleanups = <<>>],
                      <<"RunCleanups", cleanups, Len(cleanups)>>)
         IN IF S3.panic # "" THEN S3 ELSE
         LET S4 == Do([S3 EXCEPT !.scopes.sc[sc].scopes = <<>>],
                      <<"StopScopes", S3.scopes.sc[sc].scopes>>)
         IN IF S4.panic # "" THEN S4 ELSE
         LET parent == S4.scopes.sc[sc].parent
             S5 == IF parent # NoScope
                   THEN [S4 EXCEPT !.scopes.sc[parent].scopes = SeqRemove(@, sc)]
                   ELSE S4
         IN Log([S5 EXCEPT !.scopes.sc[sc].active = FALSE], <<"off", sc>>)

\* ------------------------------------------------------------------------
\* primitives/selector.rs
\* ------------------------------------------------------------------------

\* the default compare of create_selector: key == value
Compare(key, val) == key = val

\* selector.rs Selector::is_selected: the state after the call
is_selected_sub(S, sel, key) ==
    LET r == S.ctx.active_reaction IN
    IF r # NoReaction /\ "DESTROYED" \notin S.flags[r]
    THEN [S EXCEPT !.selectors[sel].subscribers[key] = @ \cup {r}]
    ELSE S

\* selector.rs Selector::is_selected: the value returned
is_selected_result(S, sel, key) ==
    S.selectors[sel].current_value # NoVal /\ Compare(key, S.selectors[sel].current_value)

RECURSIVE MarkSubscribers(_, _)
\* the internal effect: set_signal_status(DIRTY) and add_pending_reaction for
\* each dirty reaction, without a flush
MarkSubscribers(S, rs) ==
    IF rs = <<>> THEN S
    ELSE LET S1 == add_pending_reaction(set_signal_status(S, Head(rs), "DIRTY"), Head(rs))
         IN MarkSubscribers([S1 EXCEPT !.hist.marked = @ \cup {Head(rs)}], Tail(rs))

RECURSIVE SelectorKeys(_, _, _, _, _)
\* the internal effect: `for (key, reactions) in subscribers_snapshot`; the
\* result is the state (destroyed subscribers removed) and dirty_reactions
SelectorKeys(S, sel, keys, val, dirty) ==
    IF keys = <<>> THEN [st |-> S, dirty |-> dirty]
    ELSE LET key == Head(keys)
             prev == S.selectors[sel].current_value
             was_selected == prev # NoVal /\ Compare(key, prev)
             now_selected == Compare(key, val)
             snap == S.selectors[sel].subscribers[key]
             live == {r \in snap : "DESTROYED" \notin S.flags[r]}
         IN IF was_selected # now_selected
            THEN SelectorKeys([S EXCEPT !.selectors[sel].subscribers[key] = live],
                              sel, Tail(keys), val, dirty \o SetToSeq(live))
            ELSE SelectorKeys(S, sel, Tail(keys), val, dirty)

\* selector.rs create_selector: the body of the internal effect_sync after
\* `let value = source()`
selector_update(S, sel, val) ==
    LET s == S.selectors[sel]
        keys == SetToSeq({k \in DOMAIN s.subscribers : s.subscribers[k] # {}})
        S1 == IF s.initialized /\ s.current_value # val
              THEN LET r == SelectorKeys(S, sel, keys, val, <<>>)
                   IN MarkSubscribers(r.st, r.dirty)
              ELSE S
    IN [S1 EXCEPT !.selectors[sel].current_value = val,
                  !.selectors[sel].initialized = TRUE]

\* ------------------------------------------------------------------------
\* User closures: a closure is a sequence of instructions; S.acc is the value
\* the closure has computed so far.  me is the reaction whose body this is
\* (NoReaction for top-level code, teardowns and repeater closures).
\* ------------------------------------------------------------------------

Min(a, b) == IF a < b THEN a ELSE b

\* x.get() for a signal or a derived: the state after the call
Get(S, x) == IF Kind(S, x) = "derived" THEN Do(S, <<"Derived_get", x>>) ELSE Signal_get(S, x)

\* a read made by the body of me, added to acc; hist.reads records the reads
\* made with tracking enabled
ReadBy(S, x, me) ==
    LET S1 == Get(S, x) IN
    IF S1.panic # "" THEN S1
    ELSE LET S2 == IF me # NoReaction /\ ~S.ctx.untracking
                   THEN [S1 EXCEPT !.hist.reads[me] = @ \cup {x}] ELSE S1
         IN [S2 EXCEPT !.acc = S.acc + S1.value[x]]

\* batching.rs untrack(f): set_untracking(true), run f, UntrackGuard restores
Untrack(S, body, me) ==
    LET prev == S.ctx.untracking
        S1 == Do([S EXCEPT !.ctx.untracking = TRUE], <<"ExecSeq", body, me>>)
    IN [S1 EXCEPT !.ctx.untracking = prev]

\* a batch(f) that decrements the depth after f returns, without a guard
Batch_without_guard(S, body, me) ==
    LET R == Do([S EXCEPT !.ctx.batch_depth = @ + 1], <<"ExecSeq", body, me>>)
        depth == IF R.ctx.batch_depth > 0 THEN R.ctx.batch_depth - 1 ELSE 0
        S1 == [R EXCEPT !.ctx.batch_depth = depth,
                        !.hist.in_batch = IF depth = 0 THEN R.hist.marked ELSE @]
    IN IF R.panic # "" THEN R
       ELSE IF depth = 0 THEN Do(S1, <<"flush_pending_reactions">>) ELSE S1

\* batching.rs batch(f): enter_batch, run f, BatchGuard::drop does exit_batch
\* and flush_pending_reactions at depth 0, also while a panic unwinds;
\* hist.in_batch records the effects marked while the batch was open
Batch(S, body, me) ==
    LET R == Do([S EXCEPT !.ctx.batch_depth = @ + 1], <<"ExecSeq", body, me>>)
        unwinding == R.panic
        depth == IF R.ctx.batch_depth > 0 THEN R.ctx.batch_depth - 1 ELSE 0
        S1 == [R EXCEPT !.ctx.batch_depth = depth, !.panic = "",
                        !.hist.in_batch = IF depth = 0 THEN R.hist.marked ELSE @]
        S2 == IF depth = 0 THEN Do(S1, <<"flush_pending_reactions">>) ELSE S1
    IN IF unwinding = "" THEN S2
       ELSE IF S2.panic # "" THEN Panic(S2, MsgAbort)
       ELSE Panic(S2, unwinding)

\* one statement of a closure
ExecIns(S, ins, me) ==
    CASE ins.op = "get" -> Do(S, <<"ReadBy", ins.x, me>>)
      [] ins.op = "peek" ->
            LET U == Do(S, <<"Untrack", <<[op |-> "get", x |-> ins.x]>>, me>>)
                tracked == Do(S, <<"ReadBy", ins.x, me>>)
            IN [U EXCEPT !.hist.peekdiff = @ \/ (U.panic = "" /\ U.acc # tracked.acc)]
      [] ins.op = "untrack" -> Do(S, <<"Untrack", ins.body, me>>)
      [] ins.op = "batch" -> Do(S, <<"Batch", ins.body, me>>)
      [] ins.op = "set" -> Do(S, <<"Signal_set", ins.x, ins.v>>)
      [] ins.op = "setacc" -> Do(S, <<"Signal_set", ins.x, S.acc + ins.add>>)
      [] ins.op = "min" -> [S EXCEPT !.acc = Min(@, ins.k)]
      [] ins.op = "ifz" ->
            LET C == Do([S EXCEPT !.acc = 0], <<"Untrack", <<[op |-> "get", x |-> ins.x]>>, me>>)
                S1 == [C EXCEPT !.acc = S.acc]
            IN IF C.panic = "" /\ C.acc = 0 THEN Do(S1, <<"ExecSeq", ins.body, me>>) ELSE S1
      [] ins.op \in {"effect", "effect_sync"} ->
            Do(S, <<"create_effect", ins.e,
                    IF ins.op = "effect" THEN {"EFFECT", "USER_EFFECT"}
                    ELSE {"EFFECT", "RENDER_EFFECT", "USER_EFFECT"},
                    ins.op = "effect_sync", TRUE>>)
      [] ins.op = "flush_sync" -> Do(S, <<"flush_sync_inner">>)
      [] ins.op = "panic" -> Panic(S, MsgUser)
      [] ins.op = "panic_if" ->
            LET C == Do([S EXCEPT !.acc = 0], <<"Untrack", <<[op |-> "get", x |-> ins.x]>>, me>>)
                S1 == [C EXCEPT !.acc = S.acc]
            IN IF C.panic = "" /\ C.acc = 1 THEN Panic(S1, MsgUser) ELSE S1
      [] ins.op = "is_selected" ->
            [is_selected_sub(S, ins.sel, ins.k) EXCEPT
                !.acc = @ + (IF is_selected_result(S, ins.sel, ins.k) THEN 1 ELSE 0),
                !.hist.asked = [n \in DOMAIN @ |->
                                  IF n = me THEN @[n] \cup {<<ins.sel, ins.k>>} ELSE @[n]]]
      [] ins.op = "selector_update" -> selector_update(S, ins.sel, S.acc)
      [] ins.op = "repeat" ->
            [S EXCEPT !.flags[ins.r] = {"REPEATER", "CLEAN"},
                      !.deps[ins.r] = <<ins.x>>,
                      !.reactions[ins.x] = Append(@, ins.r),
                      !.hist.handle = @ \cup {ins.r}]
      [] ins.op = "repeat_dispose" -> repeat_dispose(S, ins.r)
      [] ins.op = "scope_run" -> Do(S, <<"scope_run", ins.sc, ins.body, me>>)
      [] ins.op = "pause" -> scope_pause(S, ins.sc)
      [] ins.op = "resume" -> Do(S, <<"scope_resume", ins.sc>>)
      [] ins.op = "stop" -> Do(S, <<"scope_stop", ins.sc>>)
      [] ins.op = "effect_scope" -> effect_scope(S, ins.sc, ins.detached)
      [] ins.op = "on_scope_dispose" -> on_scope_dispose(S, [k |-> ins.k, body |-> ins.body])
      [] ins.op = "dispose" ->
            IF ins.e \notin S.hist.handle THEN S
            ELSE Do([S EXCEPT !.hist.handle = @ \ {ins.e}], <<"destroy_effect", ins.e, TRUE>>)

\* the statements of a closure in order; a panic skips the rest
ExecSeq(S, body, me) ==
    IF S.panic # "" \/ body = <<>> THEN S
    ELSE Do(Do(S, <<"ExecIns", Head(body), me>>), <<"ExecSeq", Tail(body), me>>)

Do(S, c) ==
    CASE c[1] = "ExecSeq" -> ExecSeq(S, c[2], c[3])
      [] c[1] = "mark_reactions" -> mark_reactions(S, c[2], c[3])
      [] c[1] = "MarkLoop" -> MarkLoop(S, c[2])
      [] c[1] = "MarkEach" -> MarkEach(S, c[2], c[3], c[4])
      [] c[1] = "ScheduleAll" -> ScheduleAll(S, c[2])
      [] c[1] = "forward" -> forward(S, c[2])
      [] c[1] = "flush_pending_effects" -> flush_pending_effects(S)
      [] c[1] = "Iterate" -> Iterate(S, c[2], c[3], c[4])
      [] c[1] = "Chunk" -> Chunk(S, c[2], c[3])
      [] c[1] = "FlushStep" -> FlushStep(S, c[2])
      [] c[1] = "RunPending" -> RunPending(S, c[2], c[3])
      [] c[1] = "update_effect" -> update_effect(S, c[2])
      [] c[1] = "destroy_effect" -> destroy_effect(S, c[2], c[3])
      [] c[1] = "DestroyEach" -> DestroyEach(S, c[2])
      [] c[1] = "ProcessChain" -> ProcessChain(S, c[2], c[3])
      [] c[1] = "ResumeEach" -> ResumeEach(S, c[2])
      [] c[1] = "ExecIns" -> ExecIns(S, c[2], c[3])
      [] c[1] = "ReadBy" -> ReadBy(S, c[2], c[3])
      [] c[1] = "Untrack" -> Untrack(S, c[2], c[3])
      [] c[1] = "Batch" -> Batch(S, c[2], c[3])
      [] c[1] = "Signal_set" -> Signal_set(S, c[2], c[3])
      [] c[1] = "notify_write" -> notify_write(S, c[2])
      [] c[1] = "schedule_effect" -> schedule_effect(S, c[2])
      [] c[1] = "compute" -> compute(S, c[2])
      [] c[1] = "update_derived" -> update_derived(S, c[2])
      [] c[1] = "update_derived_chain" -> update_derived_chain(S, c[2])
      [] c[1] = "Derived_get" -> Derived_get(S, c[2])
      [] c[1] = "destroy_effect_children" -> destroy_effect_children(S, c[2])
      [] c[1] = "execute_teardown" -> execute_teardown(S, c[2])
      [] c[1] = "run_effect_flush" -> run_effect_flush(S)
      [] c[1] = "schedule_effect_inner" -> schedule_effect_inner(S, c[2])
      [] c[1] = "flush_pending_reactions" -> flush_pending_reactions(S)
      [] c[1] = "flush_sync_inner" -> flush_sync_inner(S)
      [] c[1] = "create_effect" -> create_effect(S, c[2], c[3], c[4], c[5])
      [] c[1] = "scope_run" -> scope_run(S, c[2], c[3], c[4])
      [] c[1] = "scope_resume" -> scope_resume(S, c[2])
      [] c[1] = "scope_stop" -> scope_stop(S, c[2])
      [] c[1] = "StopEach" -> StopEach(S, c[2])
      [] c[1] = "RunCleanups" -> RunCleanups(S, c[2], c[3])
      [] c[1] = "StopScopes" -> StopScopes(S, c[2])
      [] c[1] = "ResumeScopes" -> ResumeScopes(S, c[2])

\* ------------------------------------------------------------------------
\* Programs: the nodes a test program declares and the closures it passes
\* ------------------------------------------------------------------------

Sig(eq) == [kind |-> "signal", body |-> <<>>, teardown |-> <<>>, eq |-> eq]
Der(body) == [kind |-> "derived", body |-> body, teardown |-> <<>>, eq |-> "default"]
Eff(body) == [kind |-> "effect", body |-> body, teardown |-> <<>>, eq |-> "default"]
Rep(body) == [kind |-> "repeater", body |-> body, teardown |-> <<>>, eq |-> "default"]

IGet(x) == [op |-> "get", x |-> x]
IPeek(x) == [op |-> "peek", x |-> x]
ISet(x, v) == [op |-> "set", x |-> x, v |-> v]
ISetAcc(x, add) == [op |-> "setacc", x |-> x, add |-> add]
IMin(k) == [op |-> "min", k |-> k]
IUntrack(body) == [op |-> "untrack", body |-> body]
IBatch(body) == [op |-> "batch", body |-> body]
IIfz(x, body) == [op |-> "ifz", x |-> x, body |-> body]
\* if peek(|| x.get()) == 1 { panic!() }
IPanicIf(x) == [op |-> "panic_if", x |-> x]
IPanic == [op |-> "panic"]
\* the dispose function effect() / effect_sync() returned for the latest
\* instance of e, an FnOnce the program keeps (hist.handle) until it calls
\* it; calling it is destroy_effect(e, true)
IDispose(e) == [op |-> "dispose", e |-> e]
IEffectSync(e) == [op |-> "effect_sync", e |-> e]
IEffect(e) == [op |-> "effect", e |-> e]
IScopeRun(sc, body) == [op |-> "scope_run", sc |-> sc, body |-> body]
IEffectScope(sc) == [op |-> "effect_scope", sc |-> sc, detached |-> FALSE]
IOnDispose(k, body) == [op |-> "on_scope_dispose", k |-> k, body |-> body]

NodesOf(P, k) == {n \in DOMAIN P : P[n].kind = k}

\* core/context.rs ReactiveContext::new
NewContext ==
    [active_reaction |-> NoReaction, active_effect |-> NoReaction,
     untracking |-> FALSE, write_version |-> 1, read_version |-> 0,
     new_deps |-> <<>>, skipped_deps |-> 0, batch_depth |-> 0,
     pending_reactions |-> <<>>, is_flushing_sync |-> FALSE]

\* the state after the program has constructed its signals (initial value 0,
\* SourceInner::new_with_equals) and deriveds (DerivedInner::new_with_equals),
\* and before its setup code has run
Base(P, scs, sels) ==
    [prog |-> P,
     value |-> [n \in DOMAIN P |-> IF P[n].kind = "signal" THEN 0 ELSE NoVal],
     write_version |-> [n \in DOMAIN P |-> 0],
     read_version |-> [n \in DOMAIN P |-> 0],
     flags |-> [n \in DOMAIN P |->
                  CASE P[n].kind = "signal" -> {"SOURCE", "CLEAN"}
                    [] P[n].kind = "derived" -> {"DERIVED", "SOURCE", "DIRTY"}
                    [] OTHER -> {}],
     deps |-> [n \in DOMAIN P |-> <<>>],
     reactions |-> [n \in DOMAIN P |-> <<>>],
     fx |-> [n \in DOMAIN P |-> [func |-> FALSE, borrowed |-> FALSE, teardown |-> FALSE,
                                 parent |-> NoReaction, children |-> <<>>]],
     ctx |-> NewContext,
     scopes |-> [active |-> NoScope,
                 sc |-> [x \in scs |-> [active |-> TRUE, paused |-> FALSE, effects |-> <<>>,
                                        cleanups |-> <<>>, parent |-> NoScope,
                                        scopes |-> <<>>]]],
     selectors |-> [x \in sels |-> [current_value |-> NoVal, initialized |-> FALSE,
                                    subscribers |-> [k \in 0..(MaxVal + 1) |-> {}]]],
     hist |-> [runs |-> [n \in DOMAIN P |-> 0], reads |-> [n \in DOMAIN P |-> {}],
               seen |-> [n \in DOMAIN P |-> NoVal], tds |-> [n \in DOMAIN P |-> 0],
               at |-> [n \in DOMAIN P |-> 0], failed |-> {},
               done |-> [n \in DOMAIN P |-> 0], inst |-> [n \in DOMAIN P |-> 0],
               made |-> [n \in DOMAIN P |-> <<>>], early |-> {}, late |-> {},
               handle |-> {}, log |-> <<>>, snap |-> NoSnap, scoped |-> [x \in scs |-> {}], dropped |-> {},
               frames |-> {}, twice |-> {}, asked |-> [n \in DOMAIN P |-> {}],
               batch_runs |-> 0, marked |-> {}, in_batch |-> {}, peekdiff |-> FALSE, budget |-> 0],
     panic |-> "", acc |-> 0, brk |-> FALSE, sched |-> <<>>]

\* the state after the setup code of the program has run at top level
Setup(P, scs, sels, setup) == Do(Base(P, scs, sels), <<"ExecSeq", setup, NoReaction>>)

NoCall == [op |-> "none", x |-> "none", v |-> 0, ret |-> 0, n |-> 0]

\* the program makes at most budget top-level calls after its setup
InitFrom(S0, budget) ==
    LET S == [S0 EXCEPT !.hist.budget = budget] IN
    /\ prog = S.prog /\ value = S.value /\ write_version = S.write_version
    /\ read_version = S.read_version /\ flags = S.flags /\ deps = S.deps
    /\ reactions = S.reactions /\ fx = S.fx /\ ctx = S.ctx /\ scopes = S.scopes
    /\ selectors = S.selectors /\ hist = S.hist /\ panic = S.panic
    /\ last = NoCall @@ [pre |-> S]

\* a top-level call starts from the current state with the per-call
\* observations cleared
Start == [Cur EXCEPT !.hist.marked = {}, !.hist.in_batch = {}, !.hist.batch_runs = 0,
                     !.hist.log = <<>>, !.hist.snap = NoSnap, !.hist.frames = {},
                     !.hist.twice = {}]

\* the variables after a top-level call that ended in state S
Commit(S, call) ==
    /\ prog' = S.prog /\ value' = S.value /\ write_version' = S.write_version
    /\ read_version' = S.read_version /\ flags' = S.flags /\ deps' = S.deps
    /\ reactions' = S.reactions /\ fx' = S.fx /\ ctx' = S.ctx /\ scopes' = S.scopes
    /\ selectors' = S.selectors /\ hist' = S.hist /\ panic' = S.panic
    /\ last' = call @@ [n |-> last.n + 1, pre |-> Cur]

\* the thread of the program is alive and has calls left to make
CanCall == panic = "" /\ last.n < hist.budget

Signals == NodesOf(prog, "signal")
Deriveds == NodesOf(prog, "derived")
Effects == NodesOf(prog, "effect")

\* user code at top level: s.set(v)
SetSignal ==
    \E s \in Signals, v \in 0..MaxVal :
        /\ CanCall
        /\ Commit(Do(Start, <<"Signal_set", s, v>>),
                  [op |-> "set", x |-> s, v |-> v,
                   ret |-> IF SourceInner_changed(Cur, s, v) THEN 1 ELSE 0])

\* user code at top level: d.get()
GetDerived ==
    \E d \in Deriveds :
        /\ CanCall
        /\ LET S == Do(Start, <<"Derived_get", d>>)
           IN Commit(S, [op |-> "get", x |-> d, v |-> 0, ret |-> S.value[d]])

\* ------------------------------------------------------------------------
\* Specification of programs made of signals and deriveds only
\* ------------------------------------------------------------------------

\* a and b are signals; X = a, Y = min(X, 1) or X, T = X + Y read in either
\* order; D reads b only while a is 0, and the program has read D once
ProgD(ybody, tbody) ==
    [a |-> Sig("default"), b |-> Sig("default"),
     X |-> Der(<<IGet("a")>>),
     Y |-> Der(ybody),
     T |-> Der(tbody),
     D |-> Der(<<IIfz("a", <<IGet("b")>>)>>)]

InitD ==
    \E ybody \in {<<IGet("X")>>, <<IGet("X"), IMin(1)>>},
       tbody \in {<<IGet("X"), IGet("Y")>>, <<IGet("Y"), IGet("X")>>} :
        InitFrom(Setup(ProgD(ybody, tbody), {}, {}, <<IGet("D")>>), MaxOps + 1)

NextD == SetSignal \/ GetDerived

SpecD == InitD /\ [][NextD]_vars

\* ------------------------------------------------------------------------
\* C1: derived values are never stale
\* ------------------------------------------------------------------------

RECURSIVE IdealBody(_, _, _)
\* the value a closure made of reads computes from the current signal values
IdealBody(S, acc, body) ==
    IF body = <<>> THEN acc
    ELSE LET ins == Head(body) IN
         CASE ins.op \in {"get", "peek"} ->
                IdealBody(S, acc + (IF Kind(S, ins.x) = "derived"
                                    THEN IdealBody(S, 0, S.prog[ins.x].body)
                                    ELSE S.value[ins.x]), Tail(body))
           [] ins.op = "min" -> IdealBody(S, Min(acc, ins.k), Tail(body))
           [] ins.op = "ifz" ->
                IdealBody(S, IF S.value[ins.x] = 0 THEN IdealBody(S, acc, ins.body) ELSE acc,
                          Tail(body))
           [] ins.op = "untrack" -> IdealBody(S, IdealBody(S, acc, ins.body), Tail(body))
           [] OTHER -> IdealBody(S, acc, Tail(body))

Ideal(d) == IdealBody(Cur, 0, prog[d].body)

RECURSIVE TrackedOnly(_, _)
\* every read in the closure, and in the closures of the deriveds it reads,
\* is a tracked read
TrackedOnly(P, body) ==
    \A i \in 1..Len(body) :
        /\ body[i].op \in {"get", "min"}
        /\ body[i].op = "get" /\ P[body[i].x].kind = "derived"
              => TrackedOnly(P, P[body[i].x].body)

\* C1: after value-changing writes made outside reactions, every d.get() of a
\* derived of an acyclic graph returns the value its closure computes from the
\* current signal values, and a derived that is CLEAN caches that value.
C1_NeverStale ==
    /\ (last.op = "get" /\ panic = "" /\ TrackedOnly(prog, prog[last.x].body))
          => last.ret = Ideal(last.x)
    /\ \A d \in Deriveds :
          (panic = "" /\ TrackedOnly(prog, prog[d].body)
             /\ "CLEAN" \in flags[d] /\ value[d] # NoVal) => value[d] = Ideal(d)

\* ------------------------------------------------------------------------
\* C5: deps and reactions mirror each other
\* ------------------------------------------------------------------------

IsReaction(n) == flags[n] \cap {"DERIVED", "EFFECT", "REPEATER"} # {}

\* C5: after every public operation, for every reaction R that is not
\* destroyed and every source S: S is in R.deps iff S.reactions holds R.
C5_DepsMirrorReactions ==
    panic = "" =>
        \A r \in DOMAIN prog, s \in DOMAIN prog :
            (IsReaction(r) /\ "DESTROYED" \notin flags[r])
               => (Contains(deps[r], s) <=> Contains(reactions[s], r))

\* ------------------------------------------------------------------------
\* Specification of programs with effects, batch, untrack and a repeater
\* ------------------------------------------------------------------------

\* effects the program creates at top level after its setup
LateEffects == {e \in Effects : flags[e] = {} /\ e \in {"E3"}}

\* user code at top level: effect_sync(body of e)
CreateEffectSync ==
    \E e \in LateEffects :
        /\ CanCall
        /\ Commit(Do(Start, <<"ExecIns", [op |-> "effect_sync", e |-> e], NoReaction>>),
                  [op |-> "effect_sync", x |-> e, v |-> 0, ret |-> 0])

\* the write sequences W passed to batch
Writes ==
    {<<ISet("a", v), IBatch(<<ISet("b", w)>>), ISet("a", w)>> : v, w \in 0..MaxVal}
    \cup {<<ISet("c", v)>> : v \in 0..MaxVal}

\* user code at top level: batch(|| W).  The call also records, for the same
\* state, what W run without the batch and followed by tick() ends in.
BatchWrites ==
    \E W \in Writes :
        /\ CanCall
        /\ LET S == Do(Start, <<"Batch", W, NoReaction>>)
               A == Do(Start, <<"ExecSeq", W \o <<[op |-> "flush_sync"]>>, NoReaction>>)
           IN Commit(S, [op |-> "batch", x |-> "none", v |-> 0, ret |-> 0,
                         w |-> W, alt |-> A])

\* user code at top level: tick(), which is flush_sync()
Tick ==
    /\ CanCall
    /\ Commit(Do(Start, <<"flush_sync_inner">>), [op |-> "tick", x |-> "none", v |-> 0, ret |-> 0])

\* signals a, b, c, n; the deriveds X = a, Y = X, T = X + Y and U = a;
\* E1 reads a tracked and b and U only under (nested) untrack and peek,
\* E2 reads c, ET reads T, EY reads Y and then X, the late effect E3 reads a,
\* writes c and reads b; the repeater R forwards n into b
ProgE(neq) ==
    [a |-> Sig("default"), b |-> Sig("default"), c |-> Sig("default"), n |-> Sig(neq),
     X |-> Der(<<IGet("a")>>),
     Y |-> Der(<<IGet("X")>>),
     T |-> Der(<<IGet("X"), IGet("Y")>>),
     U |-> Der(<<IGet("a")>>),
     E1 |-> Eff(<<IGet("a"), IUntrack(<<IUntrack(<<IGet("b")>>), IGet("b")>>), IPeek("b"),
                  IPeek("U")>>),
     E2 |-> Eff(<<IGet("c")>>),
     ET |-> Eff(<<IGet("T")>>),
     EY |-> Eff(<<IGet("Y"), IGet("X")>>),
     E3 |-> Eff(<<IGet("a"), ISetAcc("c", 1), IGet("b")>>),
     R |-> Rep(<<IGet("n"), ISetAcc("b", 0)>>)]

SetupE ==
    <<[op |-> "effect", e |-> "E1"], [op |-> "effect", e |-> "E2"],
      [op |-> "effect", e |-> "ET"], [op |-> "effect", e |-> "EY"],
      [op |-> "repeat", r |-> "R", x |-> "n"]>>

Init ==
    \E neq \in {"never", "always"} :
        InitFrom(Setup(ProgE(neq), {}, {}, SetupE), MaxOps)

Next == SetSignal \/ GetDerived \/ CreateEffectSync \/ BatchWrites \/ Tick

Spec == Init /\ [][Next]_vars

\* ------------------------------------------------------------------------
\* C3: the dependency list is the set of tracked reads of the latest run
\* ------------------------------------------------------------------------

\* the effects and deriveds that have run and are not destroyed
HasRun == {r \in Effects \cup Deriveds : hist.runs[r] > 0 /\ "DESTROYED" \notin flags[r]}

\* C3: after a run of an effect or a recomputation of a derived has finished,
\* its dependency list is exactly the set of sources it read with tracking
\* enabled during that run, also when other reactions ran nested in its body.
C3_DepsAreTrackedReads ==
    panic = "" => \A r \in HasRun : Range(deps[r]) = hist.reads[r]

\* ------------------------------------------------------------------------
\* C6: a set with an equal value changes nothing
\* ------------------------------------------------------------------------

\* the last call was s.set(v) with equals(current value of s, v)
EqualSet ==
    /\ last.op = "set"
    /\ Equals(prog[last.x].eq, last.pre.value[last.x], last.v)

\* C6: s.set(v) with equals(current value, v) returns false and leaves the
\* stored values, every write_version, the global write_version, every
\* reaction's flags and the pending queue unchanged, and runs no closure.
C6_EqualSetIsNoOp ==
    EqualSet =>
        /\ last.ret = 0
        /\ value = last.pre.value
        /\ write_version = last.pre.write_version
        /\ ctx.write_version = last.pre.ctx.write_version
        /\ flags = last.pre.flags
        /\ ctx.pending_reactions = last.pre.ctx.pending_reactions
        /\ hist.runs = last.pre.hist.runs
        /\ hist.marked = {}

\* an equal set of a signal some reaction depends on, made after the signal
\* had been changed
C6_Witness ==
    /\ EqualSet
    /\ last.pre.reactions[last.x] # <<>>
    /\ last.pre.write_version[last.x] > 0

\* ------------------------------------------------------------------------
\* C7: reads under untrack and peek register no dependency
\* ------------------------------------------------------------------------

RECURSIVE ReadsOf(_, _, _)
\* the sources a closure reads with tracking (tracked = TRUE) or under
\* untrack / peek (tracked = FALSE), read off its text
ReadsOf(body, tracked, under) ==
    IF body = <<>> THEN {}
    ELSE LET ins == Head(body)
             here == CASE ins.op = "get" -> IF tracked = ~under THEN {ins.x} ELSE {}
                       [] ins.op = "peek" -> IF tracked THEN {} ELSE {ins.x}
                       [] ins.op = "untrack" -> ReadsOf(ins.body, tracked, TRUE)
                       [] ins.op = "batch" -> ReadsOf(ins.body, tracked, under)
                       [] ins.op = "ifz" ->
                            (IF tracked THEN {} ELSE {ins.x}) \cup ReadsOf(ins.body, tracked, under)
                       [] OTHER -> {}
         IN here \cup ReadsOf(Tail(body), tracked, under)

\* r has run and every read of s its body makes is under untrack or peek
UntrackedOnly(r, s) ==
    /\ r \in HasRun
    /\ s \in ReadsOf(prog[r].body, FALSE, FALSE)
    /\ s \notin ReadsOf(prog[r].body, TRUE, FALSE)

\* C7: if every read of S in R's body is inside untrack or peek, S is not in
\* R's dependency list after the run, a later write to S neither marks R nor
\* runs it, and the untracked read returned what a tracked read returns.
C7_UntrackedReadsNoDep ==
    panic = "" =>
        \A r \in Effects \cup Deriveds, s \in DOMAIN prog :
            UntrackedOnly(r, s) =>
                /\ ~Contains(deps[r], s)
                /\ ~Contains(reactions[s], r)
                /\ (last.op = "set" /\ last.x = s /\ r \in Effects \cap DOMAIN last.pre.prog
                      /\ last.pre.hist.runs[r] > 0)
                      => (r \notin hist.marked /\ hist.runs[r] = last.pre.hist.runs[r])
                /\ ~hist.peekdiff

\* a value-changing write to a signal that an effect which has run reads only
\* under untrack and peek
C7_Witness ==
    /\ last.op = "set" /\ last.ret = 1 /\ panic = ""
    /\ \E r \in Effects : UntrackedOnly(r, last.x) /\ last.pre.hist.runs[r] > 0

\* ------------------------------------------------------------------------
\* C8: a batch defers the effects and runs each once with the final values
\* ------------------------------------------------------------------------

\* the value the body of reaction r computes from the current signal values
IdealOf(r) == IdealBody(Cur, 0, prog[r].body)

\* C8: while batch_depth > 0 no effect body runs; when the outermost batch
\* returns, every effect a write of the batch marked has run exactly once
\* for the whole batch and has observed the final values.
C8_BatchRunsEachOnce ==
    (last.op = "batch" /\ panic = "") =>
        /\ hist.batch_runs = 0
        /\ \A e \in Effects \cap hist.in_batch :
              /\ hist.runs[e] = last.pre.hist.runs[e] + 1
              /\ hist.seen[e] = IdealOf(e)

\* ------------------------------------------------------------------------
\* C9: batch(|| W) against W un-batched followed by tick()
\* ------------------------------------------------------------------------

\* the value d.get() returns at top level in state S
GetValue(S, d) == Do(S, <<"Derived_get", d>>).value[d]

\* C9: batch(|| W) ends with the same signal and derived values and the same
\* number of executions of every effect as W un-batched followed by tick().
C9_BatchEquivUnbatchedTick ==
    last.op = "batch" =>
        /\ panic = last.alt.panic
        /\ \A s \in Signals : value[s] = last.alt.value[s]
        /\ \A d \in Deriveds : GetValue(Cur, d) = GetValue(last.alt, d)
        /\ \A e \in Effects : hist.runs[e] = last.alt.hist.runs[e]

\* ------------------------------------------------------------------------
\* Specification of programs with an effect scope and a selector
\* ------------------------------------------------------------------------

\* user code at top level: batch(|| s.set(v))
BatchSet ==
    \E s \in Signals, v \in 0..MaxVal :
        /\ CanCall
        /\ Commit(Do(Start, <<"Batch", <<ISet(s, v)>>, NoReaction>>),
                  [op |-> "batch_set", x |-> s, v |-> v,
                   ret |-> IF SourceInner_changed(Cur, s, v) THEN 1 ELSE 0])

\* user code at top level: scope.pause()
Pause ==
    \E sc \in DOMAIN scopes.sc :
        /\ CanCall
        /\ Commit(scope_pause(Start, sc), [op |-> "pause", x |-> sc, v |-> 0, ret |-> 0])

\* user code at top level: scope.resume()
Resume ==
    \E sc \in DOMAIN scopes.sc :
        /\ CanCall
        /\ Commit(Do(Start, <<"scope_resume", sc>>),
                  [op |-> "resume", x |-> sc, v |-> 0, ret |-> 0])

\* signals a and s; the derived D = a; the effect ES, created in the scope SC,
\* reads D; SE is the internal effect of the selector SEL over s, and the
\* effect EK asks SEL whether key 1 is selected
ProgS ==
    [a |-> Sig("default"), s |-> Sig("default"),
     D |-> Der(<<IGet("a")>>),
     ES |-> Eff(<<IGet("D")>>),
     SE |-> Eff(<<IGet("s"), [op |-> "selector_update", sel |-> "SEL"]>>),
     EK |-> Eff(<<[op |-> "is_selected", sel |-> "SEL", k |-> 1]>>)]

\* the program creates the scope effect, the selector and its subscriber,
\* and then may pause the scope
SetupS(pause) ==
    <<[op |-> "scope_run", sc |-> "SC", body |-> <<[op |-> "effect", e |-> "ES"]>>],
      [op |-> "effect_sync", e |-> "SE"],
      [op |-> "effect", e |-> "EK"]>>
    \o (IF pause THEN <<[op |-> "pause", sc |-> "SC"]>> ELSE <<>>)

InitS ==
    \E pause \in BOOLEAN :
        InitFrom(Setup(ProgS, {"SC"}, {"SEL"}, SetupS(pause)), MaxOps + 1)

NextS == SetSignal \/ BatchSet \/ Pause \/ Resume \/ Tick

SpecS == InitS /\ [][NextS]_vars

\* the effects that exist, are not destroyed and are not INERT
LiveEffects ==
    {e \in Effects : flags[e] # {} /\ flags[e] \cap {"DESTROYED", "INERT"} = {}}

\* ------------------------------------------------------------------------
\* C2: quiescence after a top-level write and after a batch
\* ------------------------------------------------------------------------

\* C2: when a value-changing top-level set returns, and when the outermost
\* batch returns, the pending queue is empty and every live, non-INERT effect
\* the writes marked has run exactly once and is CLEAN.
C2_QuiescentAfterWrite ==
    (panic = "" /\ last.op \in {"set", "batch_set", "batch"}) =>
        /\ ctx.pending_reactions = <<>>
        /\ \A e \in LiveEffects \cap hist.marked :
              /\ hist.runs[e] = last.pre.hist.runs[e] + 1
              /\ "CLEAN" \in flags[e]

\* ------------------------------------------------------------------------
\* C4: quiescence after flush_sync / tick
\* ------------------------------------------------------------------------

\* the deriveds read by the effects that ran during the last call
ReadInLastCall ==
    {d \in Deriveds : \E e \in Effects :
        hist.runs[e] > last.pre.hist.runs[e] /\ d \in hist.reads[e]}

\* C4: after flush_sync() or tick() returns normally the pending queue is
\* empty, every non-destroyed effect that is not INERT is CLEAN, and every
\* derived read during the flush is CLEAN.
C4_CleanAfterFlush ==
    (panic = "" /\ last.op = "tick") =>
        /\ ctx.pending_reactions = <<>>
        /\ \A e \in LiveEffects : "CLEAN" \in flags[e]
        /\ \A d \in ReadInLastCall : "CLEAN" \in flags[d]

\* ------------------------------------------------------------------------
\* Specification of programs with an effect that writes the signal it reads
\* ------------------------------------------------------------------------

\* user code at top level: batch(|| { s.set(v); flush_sync(); })
BatchFlush ==
    \E s \in Signals, v \in 0..MaxVal :
        /\ CanCall
        /\ Commit(Do(Start, <<"Batch", <<ISet(s, v), [op |-> "flush_sync"]>>, NoReaction>>),
                  [op |-> "batch_flush", x |-> s, v |-> v,
                   ret |-> IF SourceInner_changed(Cur, s, v) THEN 1 ELSE 0])

\* signals s and a; the effect L reads s and writes s + 1 to s; E1 reads a
ProgL ==
    [s |-> Sig("default"), a |-> Sig("default"),
     L |-> Eff(<<IGet("s"), ISetAcc("s", 1)>>),
     E1 |-> Eff(<<IGet("a")>>)]

SetupL == <<[op |-> "effect", e |-> "L"], [op |-> "effect", e |-> "E1"]>>

InitL == InitFrom(Setup(ProgL, {}, {}, SetupL), MaxOps + 1)

NextL == SetSignal \/ BatchSet \/ BatchFlush \/ Tick

SpecL == InitL /\ [][NextL]_vars

\* ------------------------------------------------------------------------
\* C10: a self-writing effect ends in the maximum-update-depth panic
\* ------------------------------------------------------------------------

\* the effects that read a signal x and write x + 1 to it
SelfWriters(x) == {e \in Effects : prog[e].body = <<IGet(x), ISetAcc(x, 1)>>}

\* the last call was a value-changing write to a signal that a self-writing
\* effect depends on
TriggeredLoop ==
    /\ last.op \in {"set", "batch_set", "batch_flush"}
    /\ last.ret = 1
    /\ \E e \in SelfWriters(last.x) : Contains(last.pre.deps[e], last.x)

\* C10: a write that triggers an effect reading s and writing s + 1 ends with
\* the 'Maximum update depth exceeded' panic after at most MAX_FLUSH loop
\* iterations, whether it is a plain write, a batch exit or a flush_sync.
C10_LoopEndsInMaxDepth ==
    TriggeredLoop =>
        /\ panic = MsgMaxDepth
        /\ \A e \in SelfWriters(last.x) :
              hist.runs[e] - last.pre.hist.runs[e] <= MAX_FLUSH_COUNT + 1

\* ------------------------------------------------------------------------
\* Specification of a chain and a diamond of deriveds over one signal
\* ------------------------------------------------------------------------

\* user code at top level: s.set(v) with v from a range of three values
SetWide ==
    \E s \in Signals, v \in 0..(MaxVal + 1) :
        /\ CanCall
        /\ Commit(Do(Start, <<"Signal_set", s, v>>),
                  [op |-> "set", x |-> s, v |-> v,
                   ret |-> IF SourceInner_changed(Cur, s, v) THEN 1 ELSE 0])

\* the chain a -> B = min(a, 1) -> C, with C = B or C = min(B, 0), and the
\* diamond P = a, Q = min(a, 1), Dm = P + Q
ProgC(cbody) ==
    [a |-> Sig("default"),
     B |-> Der(<<IGet("a"), IMin(1)>>),
     C |-> Der(cbody),
     P |-> Der(<<IGet("a")>>),
     Q |-> Der(<<IGet("a"), IMin(1)>>),
     Dm |-> Der(<<IGet("P"), IGet("Q")>>)]

\* the program may have read C and Dm before its first write
InitC ==
    \E cbody \in {<<IGet("B")>>, <<IGet("B"), IMin(0)>>},
       setup \in {<<>>, <<IGet("C"), IGet("Dm")>>} :
        InitFrom(Setup(ProgC(cbody), {}, {}, setup), MaxOps + 2)

NextC == SetWide \/ GetDerived

SpecC == InitC /\ [][NextC]_vars

\* ------------------------------------------------------------------------
\* C11: an equal recomputation of b lets c short-circuit
\* ------------------------------------------------------------------------

\* the last call was c.get() on a MAYBE_DIRTY c whose latest run came after
\* the latest change of b, and during the call b recomputed to a value equal
\* to its cached value
EqualRecompute(b, c) ==
    /\ last.op = "get" /\ last.x = c /\ panic = ""
    /\ "MAYBE_DIRTY" \in last.pre.flags[c]
    /\ last.pre.deps[c] = <<b>>
    /\ last.pre.hist.at[c] >= last.pre.write_version[b]
    /\ hist.runs[b] = last.pre.hist.runs[b] + 1
    /\ Equals(prog[b].eq, last.pre.value[b], value[b])

\* C11: in a chain a -> b -> c, when a changed and b recomputes to an equal
\* value, b's write_version is unchanged and c.get() marks c CLEAN and
\* returns c's cache without running c's closure, after any earlier history.
C11_EqualRecomputeShortCircuits ==
    EqualRecompute("B", "C") =>
        /\ write_version["B"] = last.pre.write_version["B"]
        /\ "CLEAN" \in flags["C"]
        /\ hist.runs["C"] = last.pre.hist.runs["C"]
        /\ last.ret = last.pre.value["C"]

\* ------------------------------------------------------------------------
\* C12: one get() runs each dirty derived of a diamond at most once
\* ------------------------------------------------------------------------

\* the last call was d.get() on a stale d
StaleGet(d) ==
    /\ last.op = "get" /\ last.x = d /\ panic = ""
    /\ last.pre.flags[d] \cap {"DIRTY", "MAYBE_DIRTY"} # {}

\* C12: in the diamond a -> P, Q -> Dm, Dm.get() after a value-changing write
\* to a runs Dm's closure exactly once and returns the value consistent with
\* a; a single get() runs the closure of every derived at most once.
C12_DiamondRunsOnce ==
    /\ StaleGet("Dm") =>
          /\ last.ret = Ideal("Dm")
          /\ (value["P"] # last.pre.value["P"] \/ value["Q"] # last.pre.value["Q"])
                => hist.runs["Dm"] = last.pre.hist.runs["Dm"] + 1
    /\ (last.op = "get" /\ panic = "") =>
          \A d \in Deriveds : hist.runs[d] <= last.pre.hist.runs[d] + 1

\* Dm.get() after a write that changed both P and Q, Dm having been computed
\* before
C12_Witness ==
    /\ StaleGet("Dm")
    /\ last.pre.value["Dm"] # NoVal
    /\ value["P"] # last.pre.value["P"] /\ value["Q"] # last.pre.value["Q"]
    /\ hist.runs["P"] = last.pre.hist.runs["P"] + 1
    /\ hist.runs["Q"] = last.pre.hist.runs["Q"] + 1

\* ------------------------------------------------------------------------
\* Specification of a selector with one subscriber effect per key
\* ------------------------------------------------------------------------

\* user code at top level: batch(|| s.set(v)) with v from three values
BatchSetWide ==
    \E s \in Signals, v \in 0..(MaxVal + 1) :
        /\ CanCall
        /\ Commit(Do(Start, <<"Batch", <<ISet(s, v)>>, NoReaction>>),
                  [op |-> "batch_set", x |-> s, v |-> v,
                   ret |-> IF SourceInner_changed(Cur, s, v) THEN 1 ELSE 0])

\* the keys the subscriber effects of the selector ask for
Keys == 0..(MaxVal + 1)

\* the effect that asks the selector for key k
KeyEffect(k) == CASE k = 0 -> "K0" [] k = 1 -> "K1" [] OTHER -> "K2"

\* the signal s; SE is the internal effect of the selector SEL over s; the
\* effects K0, K1, K2 ask SEL for the keys 0, 1, 2
ProgK ==
    [s |-> Sig("default"),
     SE |-> Eff(<<IGet("s"), [op |-> "selector_update", sel |-> "SEL"]>>),
     K0 |-> Eff(<<[op |-> "is_selected", sel |-> "SEL", k |-> 0]>>),
     K1 |-> Eff(<<[op |-> "is_selected", sel |-> "SEL", k |-> 1]>>),
     K2 |-> Eff(<<[op |-> "is_selected", sel |-> "SEL", k |-> 2]>>)]

SetupK ==
    <<[op |-> "effect_sync", e |-> "SE"], [op |-> "effect", e |-> "K0"],
      [op |-> "effect", e |-> "K1"], [op |-> "effect", e |-> "K2"]>>

InitK == InitFrom(Setup(ProgK, {}, {"SEL"}, SetupK), MaxOps + 1)

NextK == SetWide \/ BatchSetWide \/ Tick

SpecK == InitK /\ [][NextK]_vars

\* ------------------------------------------------------------------------
\* C13: a change of the selected value reaches two keys only
\* ------------------------------------------------------------------------

\* the last call changed the source of the selector
SourceChanged ==
    /\ last.op \in {"set", "batch_set"} /\ last.x = "s" /\ last.ret = 1 /\ panic = ""

\* key k was selected before the call and is not now, or the reverse
Flipped(k) == (last.pre.value["s"] = k) # (value["s"] = k)

\* C13: when the source of a selector changes from old to new, a reaction
\* subscribed to key k is marked DIRTY and run iff (old = k) # (new = k); the
\* run counts of the effects of all other keys are unchanged.
C13_SelectorMarksTwoKeys ==
    SourceChanged =>
        \A k \in Keys :
            LET e == KeyEffect(k) IN
            /\ e \in last.pre.selectors["SEL"].subscribers[k]
            /\ (e \in hist.marked) <=> Flipped(k)
            /\ hist.runs[e] = last.pre.hist.runs[e] + (IF Flipped(k) THEN 1 ELSE 0)

\* ------------------------------------------------------------------------
\* Specification of programs whose closures panic, the panic being caught by
\* the caller (std::panic::catch_unwind around every top-level call)
\* ------------------------------------------------------------------------

\* the variables after a top-level call made inside catch_unwind that ended
\* in state S: the panic is caught, unless the process has aborted
CommitCaught(S, call) ==
    Commit([S EXCEPT !.panic = IF S.panic = MsgAbort THEN MsgAbort ELSE ""],
           call @@ [caught |-> S.panic])

\* user code at top level: catch_unwind(|| s.set(v))
CatchSet ==
    \E s \in Signals, v \in 0..MaxVal :
        /\ CanCall
        /\ CommitCaught(Do(Start, <<"Signal_set", s, v>>),
                        [op |-> "set", x |-> s, v |-> v,
                         ret |-> IF SourceInner_changed(Cur, s, v) THEN 1 ELSE 0])

\* user code at top level: catch_unwind(|| d.get())
CatchGet ==
    \E d \in Deriveds :
        /\ CanCall
        /\ LET S == Do(Start, <<"Derived_get", d>>)
           IN CommitCaught(S, [op |-> "get", x |-> d, v |-> 0, ret |-> S.value[d]])

\* user code at top level: catch_unwind(|| flush_sync())
CatchTick ==
    /\ CanCall
    /\ CommitCaught(Do(Start, <<"flush_sync_inner">>),
                    [op |-> "tick", x |-> "none", v |-> 0, ret |-> 0])

\* signals a, b and the flag p, which closures read without tracking; the
\* derived W writes the value of a into b; Bq = a; DP reads Bq and b and
\* panics while p is 1; the effect EP reads a and panics while p is 1; the
\* effect E1 reads b
ProgP ==
    [a |-> Sig("default"), b |-> Sig("default"), p |-> Sig("default"),
     W |-> Der(<<IGet("a"), ISetAcc("b", 0)>>),
     Bq |-> Der(<<IGet("a")>>),
     DP |-> Der(<<IGet("Bq"), IGet("b"), IPanicIf("p")>>),
     EP |-> Eff(<<IGet("a"), IPanicIf("p")>>),
     E1 |-> Eff(<<IGet("b")>>)]

\* the program creates the effects, reads DP, and then may write a and p
SetupP(av, pv) ==
    <<[op |-> "effect", e |-> "EP"], [op |-> "effect", e |-> "E1"],
      IGet("DP"), ISet("a", av), ISet("p", pv)>>

InitP ==
    \E av \in {0, 1}, pv \in {0, 1} :
        InitFrom(Setup(ProgP, {}, {}, SetupP(av, pv)), MaxOps + 1)

NextP == CatchSet \/ CatchGet \/ CatchTick

SpecP == InitP /\ [][NextP]_vars

\* ------------------------------------------------------------------------
\* C14: a write inside a derived's closure fails
\* ------------------------------------------------------------------------

\* the last call was W.get() on a DIRTY W, so W's closure ran and called
\* b.set(a.get())
SetInsideDerived ==
    /\ last.op = "get" /\ last.x = "W"
    /\ "DIRTY" \in last.pre.flags["W"]

\* C14: Signal::set called while a derived's closure is executing fails with
\* 'Cannot write to signals inside a derived', marks no reaction dirty and
\* runs no effect.
C14_WriteInsideDerivedFails ==
    SetInsideDerived =>
        /\ last.caught = MsgWriteInDerived
        /\ hist.marked = {}
        /\ \A e \in Effects : hist.runs[e] = last.pre.hist.runs[e]

\* ------------------------------------------------------------------------
\* C15: a derived whose closure panicked is retried by the next get()
\* ------------------------------------------------------------------------

\* the last call was d.get() and the closure of d panicked in it
PanickedGet ==
    /\ last.op = "get" /\ last.x \in hist.failed
    /\ last.x \notin last.pre.hist.failed

\* the last call was the first d.get() after one in which d's closure panicked
RetryGet ==
    /\ last.op = "get" /\ last.x \in last.pre.hist.failed

\* C15: if a derived's closure panics during get(), the panic propagates to
\* the caller, the derived still has status DIRTY and holds no value from the
\* failed run, and the next get() runs the closure again and, if it succeeds,
\* returns its value.
C15_PanickedDerivedStaysDirty ==
    /\ PanickedGet =>
          /\ last.caught \in {MsgUser, MsgWriteInDerived}
          /\ "DIRTY" \in flags[last.x] /\ "CLEAN" \notin flags[last.x]
          /\ value[last.x] = last.pre.value[last.x]
    /\ (RetryGet /\ last.caught = "") =>
          /\ hist.runs[last.x] = last.pre.hist.runs[last.x] + 1
          /\ last.ret = value[last.x]

\* C15, amended: if a derived's closure panics during get(), the panic
\* propagates to the caller, the derived keeps the status it had (DIRTY, or
\* MAYBE_DIRTY when it was reached through another derived), is not CLEAN and
\* keeps its earlier cache, and the next get() runs the closure again and, if
\* it succeeds, returns its value.
C15_PanickedDerivedStaysStale ==
    /\ PanickedGet =>
          /\ last.caught \in {MsgUser, MsgWriteInDerived}
          /\ flags[last.x] \cap StatusBits = last.pre.flags[last.x] \cap StatusBits
          /\ flags[last.x] \cap {"DIRTY", "MAYBE_DIRTY"} # {}
          /\ "CLEAN" \notin flags[last.x]
          /\ value[last.x] = last.pre.value[last.x]
    /\ (RetryGet /\ last.caught = "") =>
          /\ hist.runs[last.x] = last.pre.hist.runs[last.x] + 1
          /\ last.ret = value[last.x]

\* a get() that succeeds after the closure of a MAYBE_DIRTY derived panicked
C15_Witness ==
    /\ RetryGet /\ last.caught = ""
    /\ "MAYBE_DIRTY" \in last.pre.flags[last.x]
    /\ hist.runs[last.x] = last.pre.hist.runs[last.x] + 1

\* ------------------------------------------------------------------------
\* C16: is_flushing_sync after an effect body panicked in a flush
\* ------------------------------------------------------------------------

\* the last top-level call ran a flush in which an effect body panicked
EffectPanicked ==
    /\ last.op \in {"set", "tick"} /\ last.caught = MsgUser
    /\ \E e \in Effects : hist.runs[e] > last.pre.hist.runs[e]

\* C16: if an effect body panics during a flush, is_flushing_sync is restored
\* to the value it had before the flush started: outside a flush the flag is
\* false, and a later write or flush_sync that succeeds leaves no effect it
\* made dirty unrun.
C16_FlushingFlagRestored ==
    /\ EffectPanicked => ctx.is_flushing_sync = last.pre.ctx.is_flushing_sync
    /\ panic = "" => ~ctx.is_flushing_sync
    /\ (last.op \in {"set", "tick"} /\ last.caught = "") =>
          \A e \in Effects :
              flags[e] \cap {"DIRTY", "INERT", "DESTROYED"} # {"DIRTY"}

\* ------------------------------------------------------------------------
\* Specification of batch, untrack and peek with closures that panic
\* ------------------------------------------------------------------------

\* signals a and p; the derived DQ reads a and panics while p is 1; the
\* effect E1 reads a; the effect EQ reads a and panics while p is 1
ProgB ==
    [a |-> Sig("default"), p |-> Sig("default"),
     DQ |-> Der(<<IGet("a"), IPanicIf("p")>>),
     E1 |-> Eff(<<IGet("a")>>),
     EQ |-> Eff(<<IGet("a"), IPanicIf("p")>>)]

\* the closures passed to batch: writes followed by a panic, in one batch or
\* in a nested one, and a write alone
BatchBodies ==
    UNION {{<<ISet(s, v), IPanic>>,
            <<IBatch(<<ISet(s, v), IPanic>>)>>,
            <<IBatch(<<ISet(s, v)>>), IPanic>>,
            <<ISet(s, v)>>} : s \in {"a", "p"}, v \in 0..MaxVal}

\* the closures passed to untrack, and the closure || DQ.get() passed to peek
UntrackBodies ==
    {<<IPanic>>, <<IGet("a"), IPanic>>, <<IUntrack(<<IPanic>>)>>,
     <<IUntrack(<<IGet("a")>>), IPanic>>, <<IBatch(<<IPanic>>)>>, <<IPeek("DQ")>>}

\* user code at top level: catch_unwind(|| batch(f))
CatchBatch ==
    \E W \in BatchBodies :
        /\ CanCall
        /\ CommitCaught(Do(Start, <<"Batch", W, NoReaction>>),
                        [op |-> "batch", x |-> "none", v |-> 0, ret |-> 0, w |-> W])

\* user code at top level: catch_unwind(|| untrack(f)), or peek(f)
CatchUntrack ==
    \E W \in UntrackBodies :
        /\ CanCall
        /\ CommitCaught(Do(Start, <<"Untrack", W, NoReaction>>),
                        [op |-> "untrack", x |-> "none", v |-> 0, ret |-> 0, w |-> W])

\* the program creates E1, and may create EQ, with p = 0
InitB ==
    \E setup \in {<<[op |-> "effect", e |-> "E1"]>>,
                  <<[op |-> "effect", e |-> "E1"], [op |-> "effect", e |-> "EQ"]>>} :
        InitFrom(Setup(ProgB, {}, {}, setup), MaxOps + 1)

NextB == CatchBatch \/ CatchUntrack

SpecB == InitB /\ [][NextB]_vars

\* ------------------------------------------------------------------------
\* C17: batch_depth and untracking after the closure panicked
\* ------------------------------------------------------------------------

\* C17: if the closure passed to batch panics, batch_depth is back to the
\* value it had before the call, which is 0 outside any batch; if the
\* closure passed to untrack or peek panics, the untracking flag is back to
\* its previous value.
C17_GuardsRestoreOnPanic ==
    (last.op \in {"batch", "untrack"} /\ last.caught \notin {"", MsgAbort}) =>
        /\ ctx.batch_depth = last.pre.ctx.batch_depth
        /\ ctx.batch_depth = 0
        /\ ctx.untracking = last.pre.ctx.untracking

\* a batch whose closure panicked after a write: the guard has also run the
\* effect that the write marked
C17_Witness ==
    /\ last.op = "batch" /\ last.caught = MsgUser
    /\ hist.runs["E1"] = last.pre.hist.runs["E1"] + 1
    /\ ctx.batch_depth = 0

\* ------------------------------------------------------------------------
\* Specification of nested effects with teardowns, dispose functions and a
\* scope
\* ------------------------------------------------------------------------

\* an effect whose closure returns a teardown closure on every run
EffTd(body) == [Eff(body) EXCEPT !.teardown = <<IMin(0)>>]

\* the effect P creates the child C1 and, while a is 0, the child C2, and
\* reads a; C1 creates the grandchild G and reads c; G and C2 read c; Q reads
\* a.  P and C1 read after creating their children, because update_effect of
\* a child replaces ctx.new_deps and drops what the parent had collected.
\* Every closure returns a teardown, and the program keeps the dispose
\* function of the latest instance of every effect.
ProgT ==
    [a |-> Sig("default"), c |-> Sig("default"),
     P |-> EffTd(<<IEffectSync("C1"), IIfz("a", <<IEffectSync("C2")>>), IGet("a")>>),
     C1 |-> EffTd(<<IEffectSync("G"), IGet("c")>>),
     G |-> EffTd(<<IGet("c")>>),
     C2 |-> EffTd(<<IGet("c")>>),
     Q |-> EffTd(<<IGet("a")>>)]

\* the program creates P and Q, at top level or inside scope.run
SetupT(scoped) ==
    IF scoped
    THEN <<[op |-> "scope_run", sc |-> "SC", body |-> <<IEffectSync("P"), IEffectSync("Q")>>]>>
    ELSE <<IEffectSync("P"), IEffectSync("Q")>>

InitT ==
    \E scoped \in BOOLEAN :
        InitFrom(Setup(ProgT, {"SC"}, {}, SetupT(scoped)), MaxOps)

\* user code at top level: catch_unwind(|| dispose_e())
CatchDispose ==
    \E e \in Effects :
        /\ CanCall /\ e \in hist.handle
        /\ CommitCaught(Do(Start, <<"ExecSeq", <<IDispose(e)>>, NoReaction>>),
                        [op |-> "dispose", x |-> e, v |-> 0, ret |-> 0])

\* user code at top level: catch_unwind(|| batch(|| { s.set(v); dispose_e() }))
CatchBatchDispose ==
    \E s \in Signals, v \in 0..MaxVal, e \in Effects :
        /\ CanCall /\ e \in hist.handle
        /\ CommitCaught(Do(Start, <<"Batch", <<ISet(s, v), IDispose(e)>>, NoReaction>>),
                        [op |-> "batch_dispose", x |-> e, v |-> v, ret |-> 0, s |-> s])

\* user code at top level: catch_unwind(|| scope.stop())
CatchStop ==
    \E sc \in DOMAIN scopes.sc :
        /\ CanCall
        /\ CommitCaught(Do(Start, <<"scope_stop", sc>>),
                        [op |-> "stop", x |-> sc, v |-> 0, ret |-> 0])

NextT == CatchSet \/ CatchDispose \/ CatchBatchDispose \/ CatchStop

SpecT == InitT /\ [][NextT]_vars

\* ------------------------------------------------------------------------
\* C18: a teardown runs exactly once
\* ------------------------------------------------------------------------

\* C18: the teardown returned by run n of an effect is executed exactly once,
\* immediately before the body of run n+1 starts or when the effect is
\* destroyed, whichever comes first: the teardowns executed, plus the one
\* still stored, are the teardowns returned; a destroyed effect stores none;
\* no body has started while an earlier teardown was still to run.
C18_TeardownExactlyOnce ==
    /\ \A e \in Effects :
          /\ hist.tds[e] + (IF fx[e].teardown THEN 1 ELSE 0) = hist.done[e]
          /\ "DESTROYED" \in flags[e] => ~fx[e].teardown
    /\ hist.late = {}

\* a write re-ran P: the teardown of P's previous run and the teardown of the
\* child C1 that the re-run destroyed have each run once
C18_Witness ==
    /\ last.op = "set" /\ last.caught = ""
    /\ hist.runs["P"] = last.pre.hist.runs["P"] + 1
    /\ last.pre.fx["P"].teardown /\ hist.tds["P"] = last.pre.hist.tds["P"] + 1
    /\ last.pre.fx["C1"].teardown /\ hist.tds["C1"] = last.pre.hist.tds["C1"] + 1
    /\ hist.done["C1"] = last.pre.hist.done["C1"] + 1

\* ------------------------------------------------------------------------
\* C19: a destroyed effect
\* ------------------------------------------------------------------------

\* C19: after an effect is destroyed (by its dispose function, by scope stop
\* or by the destruction of its parent) its dependency list is empty, no
\* source's reactions list refers to it, the effects its latest run created
\* are destroyed as well, and its body does not execute again, also when it
\* was in the pending queue when it was destroyed.
C19_DestroyedStaysDead ==
    /\ \A e \in Effects : "DESTROYED" \in flags[e] =>
          /\ deps[e] = <<>>
          /\ \A s \in DOMAIN reactions : e \notin Range(reactions[s])
          /\ \A k \in Range(hist.made[e]) :
                \/ flags[k] \cap {"EFFECT_PRESERVED", "ROOT_EFFECT"} # {}
                \/ "DESTROYED" \in flags[k]
    /\ \A e \in Effects :
          ("DESTROYED" \in last.pre.flags[e] /\ hist.inst[e] = last.pre.hist.inst[e]) =>
              /\ "DESTROYED" \in flags[e]
              /\ hist.runs[e] = last.pre.hist.runs[e]
    /\ (last.op = "batch_dispose" /\ hist.inst[last.x] = last.pre.hist.inst[last.x]) =>
          /\ "DESTROYED" \in flags[last.x]
          /\ hist.runs[last.x] = last.pre.hist.runs[last.x]

\* batch(|| { a.set(v); dispose_P() }) with a changing: P was marked and
\* queued by the write and then destroyed together with C1 and G
C19_Witness ==
    /\ last.op = "batch_dispose" /\ last.caught = "" /\ last.x = "P"
    /\ "P" \in hist.marked
    /\ last.pre.deps["P"] # <<>>
    /\ {"P", "C1", "G"} \subseteq {e \in Effects : "DESTROYED" \in flags[e]}
    /\ hist.runs["P"] = last.pre.hist.runs["P"]

\* ------------------------------------------------------------------------
\* C20: the children of an effect that re-executes
\* ------------------------------------------------------------------------

RECURSIVE Descendants(_, _)
\* the effects below e in the child lists F
Descendants(F, e) ==
    LET cs == Range(F[e].children)
    IN cs \cup UNION {Descendants(F, k) : k \in cs}

\* the last call re-executed the instance of e that existed before it, and
\* the run has returned
Reexecuted(e) ==
    /\ hist.runs[e] > last.pre.hist.runs[e]
    /\ hist.inst[e] = last.pre.hist.inst[e] /\ last.pre.hist.inst[e] > 0
    /\ flags[e] \cap {"DESTROYED", "REACTION_IS_UPDATING"} = {}

\* C20: each time an effect re-executes, every non-preserved child created by
\* its previous run is destroyed, recursively and with its teardown run,
\* before the parent's teardown and body run, so after the run the effect's
\* children are exactly the effects created during that latest run.
C20_ChildrenReplacedOnRerun ==
    /\ hist.early = {}
    /\ \A e \in Effects : Reexecuted(e) =>
          /\ fx[e].children = hist.made[e]
          /\ \A k \in Descendants(last.pre.fx, e) :
                last.pre.flags[k] \cap {"EFFECT_PRESERVED", "ROOT_EFFECT"} = {} =>
                    /\ "DESTROYED" \in flags[k] \/ hist.inst[k] > last.pre.hist.inst[k]
                    /\ last.pre.fx[k].teardown => hist.tds[k] > last.pre.hist.tds[k]

\* a.set(1) re-executes P, whose previous run created C1 and C2 and whose
\* latest run creates C1 only
C20_Witness ==
    /\ last.op = "set" /\ last.caught = "" /\ Reexecuted("P")
    /\ last.pre.fx["P"].children = <<"C1", "C2">>
    /\ fx["P"].children = <<"C1">>
    /\ "DESTROYED" \in flags["C2"] /\ hist.tds["C2"] = last.pre.hist.tds["C2"] + 1
    /\ hist.inst["G"] = last.pre.hist.inst["G"] + 1

\* ------------------------------------------------------------------------
\* Specification of a scope with effects, cleanups and a child scope
\* ------------------------------------------------------------------------

\* an effect whose teardown panics while p is 1
EffTdPanic(body) == [Eff(body) EXCEPT !.teardown = <<IPanicIf("p")>>]

\* signals a, c and the flag p; E0 reads a outside any scope; E1 reads a and
\* E2 reads c, and the teardown of E2 panics while p is 1; E3 reads a inside
\* the child scope; E4 and E5 read c and are created by a later SC.run and
\* a later CS.run
ProgQ ==
    [a |-> Sig("default"), c |-> Sig("default"), p |-> Sig("default"),
     E0 |-> EffTd(<<IGet("a")>>),
     E1 |-> EffTd(<<IGet("a")>>),
     E2 |-> EffTdPanic(<<IGet("c")>>),
     E3 |-> EffTd(<<IGet("a")>>),
     E4 |-> EffTd(<<IGet("c")>>),
     E5 |-> EffTd(<<IGet("c")>>)]

\* the closure of the later sc.run: one more effect and one more cleanup
LateEffect(sc) == IF sc = "SC" THEN "E4" ELSE "E5"
LateBody(sc) == <<IEffectSync(LateEffect(sc)),
                  IOnDispose(IF sc = "SC" THEN "k4" ELSE "k5", <<>>)>>

\* the program creates E0, and inside SC.run E2, E1, the cleanups k1 and k2
\* (k2 panics while p is 1) and the child scope CS with E3 and the cleanup k3
SetupQ ==
    <<IEffectSync("E0"),
      IScopeRun("SC", <<IEffectSync("E2"), IOnDispose("k1", <<>>), IEffectSync("E1"),
                        IOnDispose("k2", <<IPanicIf("p")>>),
                        IEffectScope("CS"),
                        IScopeRun("CS", <<IEffectSync("E3"), IOnDispose("k3", <<>>)>>)>>)>>

InitQ ==
    \E pv \in {0, 1} :
        InitFrom(Setup(ProgQ, {"SC", "CS"}, {}, SetupQ \o <<ISet("p", pv)>>), MaxOps + 1)

\* user code at top level: catch_unwind(|| scope.stop()), or the drop of the
\* last handle of a scope that has no parent, which calls stop()
CatchScopeStop ==
    \E sc \in DOMAIN scopes.sc, how \in {"stop", "drop"} :
        /\ CanCall /\ sc \notin hist.dropped
        /\ how = "drop" => scopes.sc[sc].parent = NoScope
        /\ LET S0 == IF how = "drop" THEN [Start EXCEPT !.hist.dropped = @ \cup {sc}] ELSE Start
           IN CommitCaught(Do(S0, <<"scope_stop", sc>>),
                           [op |-> "stop", x |-> sc, v |-> 0, ret |-> 0, how |-> how])

\* user code at top level: catch_unwind(|| scope.run(f)), once per scope
\* while the scope is active; ret is 1 for Some
CatchScopeRun ==
    \E sc \in DOMAIN scopes.sc :
        /\ CanCall /\ sc \notin hist.dropped
        /\ scopes.sc[sc].active => hist.inst[LateEffect(sc)] = 0
        /\ CommitCaught(Do(Start, <<"scope_run", sc, LateBody(sc), NoReaction>>),
                        [op |-> "run", x |-> sc, v |-> 0,
                         ret |-> IF scopes.sc[sc].active THEN 1 ELSE 0])

NextQ == CatchSet \/ CatchScopeStop \/ CatchScopeRun

SpecQ == InitQ /\ [][NextQ]_vars

\* ------------------------------------------------------------------------
\* C21: a stopped scope
\* ------------------------------------------------------------------------

\* the events of kind k in the log of the latest call
LogOf(k) == {i \in DOMAIN hist.log : hist.log[i][1] = k}

\* sc was inactive before the latest call
WasStopped(sc) == ~last.pre.scopes.sc[sc].active

\* C21: after scope.stop() no effect created inside scope.run() executes
\* again on later signal writes, the scope is inactive, run() returns None
\* without invoking its closure, and a second stop() (or a drop after stop)
\* runs no cleanup and no teardown again.
C21_StoppedScopeIsInert ==
    /\ \A sc \in DOMAIN scopes.sc : WasStopped(sc) =>
          /\ ~scopes.sc[sc].active
          /\ \A e \in last.pre.hist.scoped[sc] : hist.runs[e] = last.pre.hist.runs[e]
    /\ (last.op = "stop" /\ last.caught = "" /\ ~WasStopped(last.x)) => ~scopes.sc[last.x].active
    /\ (last.op = "run" /\ WasStopped(last.x)) =>
          /\ last.ret = 0 /\ last.caught = "" /\ hist.log = <<>>
          /\ hist.inst = last.pre.hist.inst /\ scopes = last.pre.scopes
    /\ (last.op = "stop" /\ WasStopped(last.x)) =>
          /\ last.caught = "" /\ LogOf("cl") = {} /\ LogOf("td") = {}
          /\ hist.tds = last.pre.hist.tds

\* ------------------------------------------------------------------------
\* C22: the order of the steps of stop()
\* ------------------------------------------------------------------------

\* the sequence s from its last element to its first
Reverse(s) == [i \in 1..Len(s) |-> s[Len(s) - i + 1]]

\* the names of the cleanups in the list cs
Names(cs) == [i \in DOMAIN cs |-> cs[i].k]

\* the latest call was a stop() of an active scope that returned
Stopped(sc) == last.op = "stop" /\ last.x = sc /\ last.caught = "" /\ ~WasStopped(sc)

\* the cleanup events of the log whose cleanup is in ks, in log order
CleanupsRun(ks) == LET Mine(ev) == ev[1] = "cl" /\ ev[2] \in ks
                   IN [i \in DOMAIN SelectSeq(hist.log, Mine) |-> SelectSeq(hist.log, Mine)[i][2]]

\* C22: stop() on an active scope first flushes the pending effects, then
\* destroys all the effects the scope tracks, then runs the registered cleanups
\* in reverse registration order, then stops the child scopes, and last
\* leaves the parent's list and becomes inactive.
C22_StopOrder ==
    \A sc \in DOMAIN scopes.sc : Stopped(sc) =>
        LET pre == last.pre.scopes.sc[sc]
            L == hist.log
            mine == {i \in LogOf("destroy") : L[i][2] \in Range(pre.effects)}
            cl == {i \in LogOf("cl") : L[i][2] \in Range(Names(pre.cleanups))}
            kids == {i \in DOMAIN L : \/ L[i][1] = "off" /\ L[i][2] \in Range(pre.scopes)
                                      \/ \E c \in Range(pre.scopes) :
                                            \/ L[i][1] = "destroy" /\
                                               L[i][2] \in Range(last.pre.scopes.sc[c].effects)
                                            \/ L[i][1] = "cl" /\
                                               L[i][2] \in Range(Names(last.pre.scopes.sc[c].cleanups))}
        IN /\ \A i \in LogOf("run"), j \in mine \cup cl \cup kids : i < j
           /\ \A e \in Range(pre.effects) : \E i \in mine : L[i][2] = e
           /\ \A i \in mine, j \in cl \cup kids : i < j
           /\ CleanupsRun(Range(Names(pre.cleanups))) = Reverse(Names(pre.cleanups))
           /\ \A i \in cl, j \in kids : i < j
           /\ \A c \in Range(pre.scopes) : \E i \in kids : L[i] = <<"off", c>>
           /\ L[Len(L)] = <<"off", sc>>
           /\ \A x \in DOMAIN scopes.sc : sc \notin Range(scopes.sc[x].scopes)
           /\ ~scopes.sc[sc].active

\* SC.stop() with both effects, both cleanups and the child scope in place
C22_Witness ==
    /\ Stopped("SC")
    /\ last.pre.scopes.sc["SC"].effects = <<"E2", "E1">>
    /\ Names(last.pre.scopes.sc["SC"].cleanups) = <<"k1", "k2">>
    /\ last.pre.scopes.sc["SC"].scopes = <<"CS">>
    /\ SelectSeq(hist.log, LAMBDA ev : ev[1] \in {"destroy", "cl", "off"}) =
          << <<"destroy", "E2">>, <<"destroy", "E1">>, <<"cl", "k2">>, <<"cl", "k1">>,
             <<"destroy", "E3">>, <<"cl", "k3">>, <<"off", "CS">>, <<"off", "SC">> >>

\* ------------------------------------------------------------------------
\* C23: panics of teardowns and cleanups during stop()
\* ------------------------------------------------------------------------

\* C23: a panic raised by an effect's teardown or by a registered cleanup
\* during scope.stop() is caught: stop() returns normally, every other
\* teardown and cleanup of the scope still runs, the child scopes are
\* stopped, and the scope ends inactive.
C23_StopSurvivesPanics ==
    \A sc \in DOMAIN scopes.sc : (last.op = "stop" /\ last.x = sc /\ ~WasStopped(sc)) =>
        LET pre == last.pre.scopes.sc[sc] IN
        /\ last.caught = ""
        /\ \A e \in Range(pre.effects) :
              (last.pre.fx[e].teardown /\ "DESTROYED" \notin last.pre.flags[e]) =>
                  \E i \in LogOf("td") : hist.log[i][2] = e
        /\ \A k \in Range(Names(pre.cleanups)) : \E i \in LogOf("cl") : hist.log[i][2] = k
        /\ \A c \in Range(pre.scopes) : ~scopes.sc[c].active
        /\ ~scopes.sc[sc].active

\* ------------------------------------------------------------------------
\* Specification of a paused and resumed scope with a child scope
\* ------------------------------------------------------------------------

\* signals a and c, the derived D = a; in the scope SC the effect E1 reads a,
\* E2 reads D and EU reads c; in the child scope CS the effect E3 reads a
ProgR ==
    [a |-> Sig("default"), c |-> Sig("default"),
     D |-> Der(<<IGet("a")>>),
     E1 |-> Eff(<<IGet("a")>>),
     E2 |-> Eff(<<IGet("D")>>),
     EU |-> Eff(<<IGet("c")>>),
     E3 |-> Eff(<<IGet("a")>>)]

\* the program creates the scopes and their effects and then may pause SC
SetupR(pause) ==
    <<IScopeRun("SC", <<IEffectSync("E1"), IEffectSync("E2"), IEffectSync("EU"),
                        IEffectScope("CS"),
                        IScopeRun("CS", <<IEffectSync("E3")>>)>>)>>
    \o (IF pause THEN <<[op |-> "pause", sc |-> "SC"]>> ELSE <<>>)

InitR ==
    \E pause \in BOOLEAN :
        InitFrom(Setup(ProgR, {"SC", "CS"}, {}, SetupR(pause)), MaxOps + 1)

NextR == SetSignal \/ Pause \/ Resume \/ Tick

SpecR == InitR /\ [][NextR]_vars

\* ------------------------------------------------------------------------
\* C24: pause and resume
\* ------------------------------------------------------------------------

\* the effects tracked by sc and by the child scopes of sc before the call
TrackedBy(sc) ==
    Range(last.pre.scopes.sc[sc].effects) \cup
    UNION {Range(last.pre.scopes.sc[c].effects) : c \in Range(last.pre.scopes.sc[sc].scopes)}

\* C24: while a scope is paused none of its tracked effects, nor those of its
\* child scopes, executes; after resume() every tracked effect whose
\* dependencies changed while paused, marked DIRTY by a signal or MAYBE_DIRTY
\* through a derived, executes once without a further write (by the next
\* flush at the latest), and the effects whose dependencies did not change do
\* not run.
C24_PauseAndResume ==
    /\ \A sc \in DOMAIN scopes.sc :
          /\ (last.op = "pause" /\ last.x = sc /\ ~last.pre.scopes.sc[sc].paused) =>
                /\ \A c \in {sc} \cup Range(scopes.sc[sc].scopes) : scopes.sc[c].paused
                /\ \A e \in TrackedBy(sc) : "INERT" \in flags[e]
          /\ (last.pre.scopes.sc[sc].paused /\ scopes.sc[sc].paused) =>
                \A e \in Range(last.pre.scopes.sc[sc].effects) :
                    hist.runs[e] = last.pre.hist.runs[e]
          /\ (last.op = "resume" /\ last.x = sc /\ last.pre.scopes.sc[sc].paused) =>
                \A e \in TrackedBy(sc) :
                    /\ hist.runs[e] <= last.pre.hist.runs[e] + 1
                    /\ "CLEAN" \in last.pre.flags[e] => hist.runs[e] = last.pre.hist.runs[e]
                    /\ "DIRTY" \in last.pre.flags[e] => hist.runs[e] = last.pre.hist.runs[e] + 1
          /\ (last.op = "tick" /\ scopes.sc[sc].active /\ ~scopes.sc[sc].paused) =>
                \A e \in Range(scopes.sc[sc].effects) : hist.seen[e] = IdealOf(e)

\* ------------------------------------------------------------------------
\* C25: effects run in the order of the pending queue
\* ------------------------------------------------------------------------

\* the pending queue in append order: what was pending before the latest
\* call, then the reactions the call appended
QueueOrder ==
    LET IsEnq(ev) == ev[1] = "enq"
        enq == SelectSeq(hist.log, IsEnq)
    IN last.pre.ctx.pending_reactions \o [i \in DOMAIN enq |-> enq[i][2]]

\* the effects whose bodies ran during the latest call, in order
RunOrder ==
    LET IsRun(ev) == ev[1] = "run"
        run == SelectSeq(hist.log, IsRun)
    IN [i \in DOMAIN run |-> run[i][2]]

\* the positions of x in the sequence s
At(s, x) == {i \in DOMAIN s : s[i] = x}

\* the effects that were in the queue once and ran once, from the queue
RanFromQueue ==
    {e \in Effects : /\ Cardinality(At(QueueOrder, e)) = 1
                     /\ Cardinality(At(RunOrder, e)) = 1
                     /\ hist.inst[e] = last.pre.hist.inst[e]}

\* C25: effects execute in the order in which they were appended to the
\* pending queue, also when the queue is drained at batch exit and when a
\* running effect's body enqueues further effects.
C25_FifoOrder ==
    \A x, y \in RanFromQueue :
        \A i \in At(QueueOrder, x), j \in At(QueueOrder, y) :
            i < j => \A k \in At(RunOrder, x), l \in At(RunOrder, y) : k < l

\* ------------------------------------------------------------------------
\* Specification of repeaters
\* ------------------------------------------------------------------------

\* signals n, b, m; the repeater R forwards n into b and the repeater R2
\* forwards b into m; the effects EN, EB and EM read n, b and m
ProgX ==
    [n |-> Sig("default"), b |-> Sig("default"), m |-> Sig("default"),
     R |-> Rep(<<IGet("n"), ISetAcc("b", 0)>>),
     R2 |-> Rep(<<IGet("b"), ISetAcc("m", 0)>>),
     EN |-> Eff(<<IGet("n")>>),
     EB |-> Eff(<<IGet("b")>>),
     EM |-> Eff(<<IGet("m")>>)]

\* the effects are created before the repeaters, so they come first in the
\* reactions lists of n and b
SetupX ==
    <<IEffectSync("EN"), IEffectSync("EB"), IEffectSync("EM"),
      [op |-> "repeat", r |-> "R", x |-> "n"], [op |-> "repeat", r |-> "R2", x |-> "b"]>>

InitX == InitFrom(Setup(ProgX, {}, {}, SetupX), MaxOps + 1)

Repeaters == NodesOf(prog, "repeater")

\* user code at top level: the dispose function of the repeater r
DisposeRepeater ==
    \E r \in Repeaters :
        /\ CanCall /\ r \in hist.handle
        /\ Commit(repeat_dispose(Start, r), [op |-> "repeat_dispose", x |-> r, v |-> 0, ret |-> 0])

NextX == SetSignal \/ BatchSet \/ DisposeRepeater

SpecX == InitX /\ [][NextX]_vars

\* ------------------------------------------------------------------------
\* C26: a repeater forwards inline
\* ------------------------------------------------------------------------

\* the positions in the log of the latest call where r forwarded
Forwards(r) == {i \in LogOf("fwd") : hist.log[i][2] = r}

\* the source of r changed during the latest call
FedAnew(r) == value[deps[r][1]] # last.pre.value[deps[r][1]]

\* C26: a repeater's forward closure runs synchronously inside the write that
\* changes its source: before set returns, inside a batch before the batch
\* exits, and before any effect the write scheduled runs; the repeater is
\* CLEAN when mark_reactions has returned and is never in the pending queue;
\* after its dispose function has been called it never forwards again.
C26_RepeaterForwardsInline ==
    \A r \in Repeaters :
        /\ r \notin Range(ctx.pending_reactions)
        /\ \A i \in LogOf("enq") : hist.log[i][2] # r
        /\ "DESTROYED" \notin flags[r] => flags[r] = {"REPEATER", "CLEAN"}
        /\ "DESTROYED" \in last.pre.flags[r] =>
              /\ "DESTROYED" \in flags[r] /\ Forwards(r) = {}
              /\ \A s \in DOMAIN reactions : r \notin Range(reactions[s])
        /\ (last.op = "repeat_dispose" /\ last.x = r) => "DESTROYED" \in flags[r]
        /\ ("DESTROYED" \notin last.pre.flags[r] /\ last.op \in {"set", "batch_set"}) =>
              /\ Cardinality(Forwards(r)) = IF FedAnew(r) THEN 1 ELSE 0
              /\ \A i \in Forwards(r) :
                    /\ \A j \in DOMAIN hist.log :
                          hist.log[j] = <<"exit", "batch">> => i < j
                    /\ \A j \in LogOf("run") :
                          deps[r][1] \in Range(last.pre.deps[hist.log[j][2]]) => i < j
              /\ FedAnew(r) => value[prog[r].body[2].x] = value[deps[r][1]]

\* batch(|| n.set(v)) with n changing: R and R2 forward inside the batch and
\* the three effects run at its exit
C26_Witness ==
    /\ last.op = "batch_set" /\ last.x = "n" /\ last.ret = 1
    /\ Cardinality(Forwards("R")) = 1 /\ Cardinality(Forwards("R2")) = 1
    /\ value["m"] = value["n"]
    /\ {hist.log[j][2] : j \in LogOf("run")} = {"EN", "EB", "EM"}

\* ------------------------------------------------------------------------
\* C27: a derived computes lazily
\* ------------------------------------------------------------------------

RECURSIVE ReachOf(_, _)
\* the nodes the closure body reads, directly or through the deriveds it reads
ReachOf(P, body) ==
    UNION {IF body[i].op \in {"get", "peek"}
           THEN {body[i].x} \cup (IF P[body[i].x].kind = "derived"
                                  THEN ReachOf(P, P[body[i].x].body) ELSE {})
           ELSE IF body[i].op \in {"untrack", "ifz"} THEN ReachOf(P, body[i].body)
           ELSE {} : i \in DOMAIN body}

\* the number of events ev among the first i events of the log
Before(i, ev) == Cardinality({j \in 1..i : hist.log[j] = ev})

\* at position i of the log a get() of d is in progress
InsideGet(i, d) == Before(i, <<"get", d>>) > Before(i, <<"got", d>>)

\* at position i of the log the body of an effect is running
InsideEffect(i) == \E e \in Effects : Before(i, <<"run", e>>) > Before(i, <<"ran", e>>)

LiveNodes == {x \in DOMAIN flags : flags[x] # {} /\ "DESTROYED" \notin flags[x]}

\* the latest top-level call, if any, returned normally
Quiescent == panic = "" /\ (last.op = "none" \/ last.caught = "")

Stamped == {x \in DOMAIN write_version : write_version[x] # last.pre.write_version[x]}

\* the signals and deriveds whose value the latest call changed
Changed == {x \in Signals \cup Deriveds : value[x] # last.pre.value[x]}

RECURSIVE ReachFrom(_, _, _)
\* nodes together with the reactions reachable from them through deriveds
ReachFrom(rx, fl, nodes) ==
    LET next == nodes \cup UNION {Range(rx[d]) : d \in {x \in nodes : "DERIVED" \in fl[x]}}
    IN IF next = nodes THEN nodes ELSE ReachFrom(rx, fl, next)

\* the direct dependents of the source of the latest mark_reactions call, and
\* the reactions reachable from the source
Direct == Range(hist.snap.rx[hist.snap.src])
Reach == ReachFrom(hist.snap.rx, hist.snap.pre, Direct)

\* with the flags F, r is an effect or a derived that is not destroyed
LiveIn(F, r) == F[r] \cap {"EFFECT", "DERIVED"} # {} /\ "DESTROYED" \notin F[r]

\* the flags F show the marks of the latest mark_reactions call
MarkedIn(F) ==
    /\ \A r \in Direct : LiveIn(F, r) => "DIRTY" \in F[r]
    /\ \A r \in Reach \ Direct :
          LiveIn(F, r) => IF "DIRTY" \in hist.snap.pre[r] THEN "DIRTY" \in F[r]
                          ELSE "MAYBE_DIRTY" \in F[r]
    /\ \A r \in Reach : LiveIn(F, r) => "CLEAN" \notin F[r]

ContextKept(f) ==
    /\ f.ar1 = f.ar0
    /\ f.ae1 = f.ae0
    /\ Range(f.nd0) \subseteq Range(f.nd1)

\* C31: every nested run of the last call returned to the context it started in
C31_NestedRunKeepsOuterContext ==
    \A f \in hist.frames : ContextKept(f)


\* ------------------------------------------------------------------------
\* C32: each source is captured at most once per run: no dependency list
\* holds a source twice and no reactions list holds a reaction twice
\* ------------------------------------------------------------------------

\* signals a, b; the derived D = b; the derived G and the effect EN read a,
\* then D, then a again; the derived Z = min(a, 0) recomputes to an equal
\* value whenever a changes, and the effect EZ reads only Z
ProgN ==
    [a |-> Sig("default"), b |-> Sig("default"),
     D |-> Der(<<IGet("b")>>),
     G |-> Der(<<IGet("a"), IGet("D"), IGet("a")>>),
     EN |-> Eff(<<IGet("a"), IGet("D"), IGet("a")>>),
     Z |-> Der(<<IGet("a"), IMin(0)>>),
     EZ |-> Eff(<<IGet("Z")>>)]

SetupN == <<[op |-> "effect", e |-> "EN"], [op |-> "effect", e |-> "EZ"]>>

InitN == InitFrom(Setup(ProgN, {}, {}, SetupN), MaxOps + 1)

NextN == SetSignal \/ GetDerived \/ BatchSet \/ Tick

SpecN == InitN /\ [][NextN]_vars

NoDuplicate(s) == \A i, j \in 1..Len(s) : i # j => s[i] # s[j]

\* C32: the deps of every reaction and the reactions of every source are
\* free of duplicates
C32_NoDuplicateEdges ==
    \A n \in DOMAIN prog : NoDuplicate(deps[n]) /\ NoDuplicate(reactions[n])


\* ------------------------------------------------------------------------
\* C33: an effect is appended to the pending queue only when it leaves CLEAN,
\* so the queue never holds the same effect twice
\* ------------------------------------------------------------------------

\* C33: no effect was appended to the pending queue while the queue held it
C33_QueuedOnce ==
    /\ hist.twice = {}
    /\ NoDuplicate(ctx.pending_reactions)


\* ------------------------------------------------------------------------
\* C34: the body of an effect is never started while it is still executing
\* and the closure of an effect is never cleared while it executes
\* ------------------------------------------------------------------------

\* update_effect found effect.func borrowed by a run of the same effect, or
\* destroy_effect did, during the last call
BorrowViolations ==
    {i \in 1..Len(hist.log) : hist.log[i][1] \in {"reenter", "clear"}}

\* C34: no call borrows the closure of an effect whose body is executing
C34_NoReentrantEffect ==
    BorrowViolations = {}


\* ------------------------------------------------------------------------
\* C35: a Signal::set that is rejected because a derived is computing leaves
\* the signal untouched
\* ------------------------------------------------------------------------

\* the last call ended in the panic of notify_write
SetRejected == last.op # "none" /\ last.caught = MsgWriteInDerived

\* C35: after a rejected Signal::set every signal has the value and the
\* write_version it had before the call, and the global write_version is the
\* same as before the call
C35_RejectedSetLeavesSignal ==
    SetRejected =>
        /\ \A s \in Signals : /\ value[s] = last.pre.value[s]
                              /\ write_version[s] = last.pre.write_version[s]
        /\ ctx.write_version = last.pre.ctx.write_version


\* ------------------------------------------------------------------------
\* C36: a panic that propagates out of the closure of a derived or an effect
\* leaves the ambient context as it was before that run started
\* ------------------------------------------------------------------------

\* the last top-level call ended in a panic raised inside a closure
ClosurePanicked ==
    /\ last.op # "none"
    /\ last.caught \in {MsgUser, MsgWriteInDerived}

\* C36: after the panic the active reaction, the active effect and new_deps
\* are those of the caller and no reaction has REACTION_IS_UPDATING set
C36_ContextRestoredAfterPanic ==
    ClosurePanicked =>
        /\ ctx.active_reaction = last.pre.ctx.active_reaction
        /\ ctx.active_effect = last.pre.ctx.active_effect
        /\ ctx.new_deps = last.pre.ctx.new_deps
        /\ \A n \in DOMAIN prog :
              "REACTION_IS_UPDATING" \in flags[n] =>
                  "REACTION_IS_UPDATING" \in last.pre.flags[n]


\* ------------------------------------------------------------------------
\* C37: a live effect that is DIRTY or MAYBE_DIRTY and not INERT is in the
\* pending queue (or being flushed), so it eventually runs, also when an
\* effect body panicked during the flush that had taken it from the queue
\* ------------------------------------------------------------------------

\* the live, non-INERT effects that are DIRTY or MAYBE_DIRTY
StaleEffects ==
    {e \in Effects : /\ "EFFECT" \in flags[e]
                     /\ flags[e] \cap {"DESTROYED", "INERT"} = {}
                     /\ flags[e] \cap {"DIRTY", "MAYBE_DIRTY"} # {}}

\* C37: between top-level calls, when no flush is running, every stale
\* effect is in the pending queue
C37_StaleEffectIsQueued ==
    panic = "" => \A e \in StaleEffects : Contains(ctx.pending_reactions, e)


\* ------------------------------------------------------------------------
\* C38: an effect whose only dependencies are deriveds re-runs after a signal
\* write only if one of those deriveds recomputed to a different value
\* ------------------------------------------------------------------------

\* the effects that depended on deriveds only when the last call started
DerivedOnly ==
    {e \in Effects : /\ last.pre.deps[e] # <<>>
                     /\ \A d \in Range(last.pre.deps[e]) : prog[d].kind = "derived"}

\* the value of derived d after the last call differs from its value before
ValueChanged(d) == ~Equals(prog[d].eq, last.pre.value[d], value[d])

\* C38: a write that re-ran the body of an effect that read only deriveds
\* changed the value of one of them
C38_EqualDerivedsSkipEffect ==
    (last.op \in {"set", "batch_set"} /\ panic = "") =>
        \A e \in DerivedOnly :
            hist.runs[e] > last.pre.hist.runs[e] =>
                \E d \in Range(last.pre.deps[e]) : ValueChanged(d)


\* ------------------------------------------------------------------------
\* C39: a derived computed by a get() made inside untrack() / peek() still
\* records its own dependencies
\* ------------------------------------------------------------------------

\* the sources the closure of derived d reads with x.get()
ClosureReads(d) ==
    {prog[d].body[i].x : i \in {j \in 1..Len(prog[d].body) : prog[d].body[j].op = "get"}}

\* the deriveds that the body of an effect reads under untrack / peek and
\* that hold a computed value marked CLEAN
ComputedUntracked ==
    {d \in Deriveds :
        /\ value[d] # NoVal /\ "CLEAN" \in flags[d]
        /\ \E e \in Effects : d \in ReadsOf(prog[e].body, FALSE, FALSE)}

\* C39: every source read by the closure of such a derived has the derived
\* in its reactions list, and the value of the derived is the one computed
\* from the current signals
C39_UntrackedGetStillTracks ==
    \A d \in ComputedUntracked :
        /\ \A x \in ClosureReads(d) : Contains(reactions[x], d)
        /\ panic = "" => value[d] = Ideal(d)


\* ------------------------------------------------------------------------
\* Specification of a selector with a subscriber that asks for a key only
\* while the signal c is 0
\* ------------------------------------------------------------------------

\* the signals s and c; SE is the internal effect of the selector SEL over s;
\* the effect KC reads c and asks SEL for key 1 while c is 0; the effect K0
\* asks SEL for key 0.  hist.asked[e] holds the keys e asked for in its
\* latest run.
ProgV ==
    [s |-> Sig("default"), c |-> Sig("default"),
     SE |-> Eff(<<IGet("s"), [op |-> "selector_update", sel |-> "SEL"]>>),
     KC |-> Eff(<<IGet("c"), IIfz("c", <<[op |-> "is_selected", sel |-> "SEL", k |-> 1]>>)>>),
     K0 |-> Eff(<<[op |-> "is_selected", sel |-> "SEL", k |-> 0]>>)]

SetupV ==
    <<[op |-> "effect_sync", e |-> "SE"], [op |-> "effect", e |-> "KC"],
      [op |-> "effect", e |-> "K0"]>>

InitV == InitFrom(Setup(ProgV, {}, {"SEL"}, SetupV), MaxOps + 1)

NextV == SetSignal \/ BatchSet \/ Tick

SpecV == InitV /\ [][NextV]_vars

\* ------------------------------------------------------------------------
\* C40: selector subscriptions follow the latest run of the subscriber
\* ------------------------------------------------------------------------

\* effect e was live and CLEAN before the last call, and its latest run
\* asked SEL for no key whose selection the call changed
AskedNoFlippedKey(e) ==
    /\ "EFFECT" \in last.pre.flags[e] /\ "CLEAN" \in last.pre.flags[e]
    /\ last.pre.hist.runs[e] > 0
    /\ "s" \notin Range(last.pre.deps[e])
    /\ \A k \in Keys : Flipped(k) => <<"SEL", k>> \notin last.pre.hist.asked[e]

\* C40: a selection change neither marks nor runs an effect whose latest run
\* asked for none of the keys that flipped, and the subscribers of a key are
\* live reactions that asked for the key in their latest run
C40_SubscriptionsFollowLatestRun ==
    /\ SourceChanged =>
          \A e \in Effects :
              AskedNoFlippedKey(e) =>
                  /\ e \notin hist.marked
                  /\ hist.runs[e] = last.pre.hist.runs[e]
    /\ \A k \in Keys : \A e \in selectors["SEL"].subscribers[k] :
          /\ "DESTROYED" \notin flags[e]
          /\ <<"SEL", k>> \in hist.asked[e]

============================================================================
